---------------------------- MODULE Spec2Model ----------------------------
(***************************************************************************)
(* Verification model of the solar_rust physics engine: the force kernels  *)
(* and the collision resolver of src/src/integration.rs and the simulation *)
(* driver, its worker threads and its consumer commands of                 *)
(* src/src/engine.rs and src/src/events.rs.                                *)
(*                                                                         *)
(* Numbers.  The f64 scalars of the program are modelled as exact          *)
(* rationals <<n, d>> (d > 0, lowest terms).  Bodies move on one axis: a   *)
(* DVec3 is modelled by its x component (y = z = 0 is preserved by every   *)
(* operation of the program), so length() is the absolute value.  The one  *)
(* operation that is not exact is the quotient G / distance^3 of the force *)
(* kernels, which is rounded down to a whole number (GravMult); as in the  *)
(* program, that single rounded value is shared by the two symmetric       *)
(* contributions of a pair.                                                *)
(***************************************************************************)
EXTENDS Integers, Sequences, FiniteSets, TLC

(***************************************************************************)
(* Exact rational arithmetic (the f64 operators + - * / <= of the source). *)
(***************************************************************************)
RECURSIVE Gcd(_, _)
Gcd(a, b) ==
    IF b = 0 THEN a ELSE Gcd(b, a % b)

IAbs(x) ==
    IF x < 0 THEN -x ELSE x

RatNorm(n, d) ==
    LET s == IF d < 0 THEN -1 ELSE 1
        g == Gcd(IAbs(n), IAbs(d))
    IN  IF n = 0 THEN <<0, 1>> ELSE <<(s * n) \div g, (s * d) \div g>>

Rat(n) ==
    <<n, 1>>

Zero ==
    <<0, 1>>

RatAdd(a, b) ==
    RatNorm(a[1] * b[2] + b[1] * a[2], a[2] * b[2])

RatNeg(a) ==
    <<-a[1], a[2]>>

RatSub(a, b) ==
    RatAdd(a, RatNeg(b))

RatMul(a, b) ==
    RatNorm(a[1] * b[1], a[2] * b[2])

RatDiv(a, b) ==
    RatNorm(a[1] * b[2], a[2] * b[1])

RatLe(a, b) ==
    a[1] * b[2] <= b[1] * a[2]

RatAbs(a) ==
    <<IAbs(a[1]), a[2]>>

(***************************************************************************)
(* powf(1/3): the cube root.  It is exact on the cubes of the rationals    *)
(* p/q with p, q <= CbrtRange and rounds down to a whole number elsewhere. *)
(***************************************************************************)
CbrtRange ==
    4

Cbrt(a) ==
    LET exact == {pq \in (1..CbrtRange) \X (1..CbrtRange) :
                     /\ Gcd(pq[1], pq[2]) = 1
                     /\ pq[1] * pq[1] * pq[1] * a[2] = pq[2] * pq[2] * pq[2] * a[1]}
        whole == {k \in 0..CbrtRange : k * k * k * a[2] <= a[1]}
    IN  IF exact # {}
        THEN CHOOSE pq \in exact : TRUE
        ELSE Rat(CHOOSE k \in whole : \A j \in whole : j <= k)

(***************************************************************************)
(* AstronomicalObject (src/src/astronomy.rs): uuid and name are the id.    *)
(***************************************************************************)
Body(id, mass, radius, position, velocity) ==
    [id |-> id, mass |-> mass, radius |-> Rat(radius), position |-> Rat(position),
     velocity |-> Rat(velocity), acceleration |-> Zero]

(* G of src/src/integration.rs, in the model's units. *)
G ==
    64

(* grav_mult = G / distance.powi(3), rounded down to a whole number.  The   *)
(* first branch is the case G / distance^3 < 1, decided on the whole part   *)
(* of the distance.                                                         *)
GravMult(distance) ==
    LET w == distance[1] \div distance[2]
    IN  IF w > G \/ w * w * w > G
        THEN Zero
        ELSE Rat((G * distance[2] * distance[2] * distance[2])
                 \div (distance[1] * distance[1] * distance[1]))

(* A test that lets two bodies touch. *)
OverlapStrict(a, b) ==
    ~RatLe(RatAdd(a.radius, b.radius), RatAbs(RatSub(b.position, a.position)))

Overlap(a, b) ==
    RatLe(RatAbs(RatSub(b.position, a.position)), RatAdd(a.radius, b.radius))

(* The pairs (i, j), i < j, of a list of n bodies in the order of the two   *)
(* nested loops, with 0-based indices as in the source.                     *)
PairLt(p, q) ==
    \/ p[1] < q[1]
    \/ p[1] = q[1] /\ p[2] < q[2]

PairLe(p, q) ==
    p = q \/ PairLt(p, q)

AllPairs(n) ==
    {p \in (0..(n - 1)) \X (0..(n - 1)) : p[1] < p[2]}

(* One pair's two symmetric contributions added to the vector acc. *)
AddContributions(acc, first, second, grav_mult, difference, mass_a, mass_b) ==
    [k \in DOMAIN acc |->
        IF k = first + 1
        THEN RatAdd(acc[k], RatMul(RatMul(grav_mult, Rat(mass_b)), difference))
        ELSE IF k = second + 1
        THEN RatAdd(acc[k], RatMul(RatMul(RatNeg(grav_mult), Rat(mass_a)), difference))
        ELSE acc[k]]

AddPairAt(acc, first, second, difference, mass_a, mass_b) ==
    AddContributions(acc, first, second, GravMult(RatAbs(difference)), difference,
                     mass_a, mass_b)

AddPair(acc, bodies, p) ==
    AddPairAt(acc, p[1], p[2],
              RatSub(bodies[p[2] + 1].position, bodies[p[1] + 1].position),
              bodies[p[1] + 1].mass, bodies[p[2] + 1].mass)

ZeroVec(n) ==
    [k \in 1..n |-> Zero]

(* WorkResult: Ok(vector) or Err((first, second)). *)
Ok(vec) ==
    [ok |-> TRUE, vec |-> vec, pair |-> <<0, 0>>]

Err(pair) ==
    [ok |-> FALSE, vec |-> <<>>, pair |-> pair]

(* The two nested loops of symplectic_mt, from the pair (first, second).    *)
RECURSIVE MtLoop(_, _, _, _, _, _)
MtLoop(bodies, start, end, first, second, acc) ==
    IF first > end[1]
    THEN Ok(acc)
    ELSE IF second >= Len(bodies)
    THEN MtLoop(bodies, start, end, first + 1, first + 2, acc)
    ELSE IF first = start[1] /\ second < start[2]
    THEN MtLoop(bodies, start, end, first, second + 1, acc)
    ELSE IF first = end[1] /\ second > end[2]
    THEN Ok(acc)
    ELSE IF Overlap(bodies[first + 1], bodies[second + 1])
    THEN Err(<<first, second>>)
    ELSE MtLoop(bodies, start, end, first, second + 1,
                AddPair(acc, bodies, <<first, second>>))

symplectic_mt(local_bodies, start, end) ==
    MtLoop(local_bodies, start, end, start[1], start[1] + 1,
           ZeroVec(Len(local_bodies)))

(* The two nested loops of symplectic, from the pair (first, second). *)
RECURSIVE StLoop(_, _, _, _)
StLoop(bodies, first, second, acc) ==
    IF first >= Len(bodies) - 1
    THEN Ok(acc)
    ELSE IF second >= Len(bodies)
    THEN StLoop(bodies, first + 1, first + 2, acc)
    ELSE IF Overlap(bodies[first + 1], bodies[second + 1])
    THEN Err(<<first, second>>)
    ELSE StLoop(bodies, first, second + 1, AddPair(acc, bodies, <<first, second>>))

symplectic(local_bodies) ==
    StLoop(local_bodies, 0, 1, ZeroVec(Len(local_bodies)))

(***************************************************************************)
(* collide_objects: the heavier body absorbs the lighter one.              *)
(***************************************************************************)
RemoveAt(s, k) ==
    [x \in 1..(Len(s) - 1) |-> IF x < k THEN s[x] ELSE s[x + 1]]

(* A resolver that divides the summed momentum by the absorbing body's own *)
(* mass.                                                                   *)
CollideVelocityByOwnMass(obh, obl, total_mass) ==
    RatDiv(RatAdd(RatMul(obh.velocity, Rat(obh.mass)),
                  RatMul(obl.velocity, Rat(obl.mass))),
           Rat(obh.mass))

CollideVelocity(obh, obl, total_mass) ==
    RatDiv(RatAdd(RatMul(obh.velocity, Rat(obh.mass)),
                  RatMul(obl.velocity, Rat(obl.mass))),
           Rat(total_mass))

CollidePosition(obh, obl, total_mass) ==
    RatAdd(obh.position,
           RatMul(RatSub(obl.position, obh.position),
                  RatDiv(Rat(obl.mass), Rat(total_mass))))

(* A resolver that leaves the absorbing body's mass as it was. *)
CollideMassKept(obh, obl) ==
    obh.mass

CollideMass(obh, obl) ==
    obh.mass + obl.mass

(* obs[h].radius *= (total_mass / obs[h].mass).powf(1/3), evaluated after   *)
(* obs[h].mass += obs[l].mass: new_mass is the mass already incremented.    *)
CollideRadius(obh, total_mass, new_mass) ==
    RatMul(obh.radius, Cbrt(RatDiv(Rat(total_mass), Rat(new_mass))))

(* A selection that keeps the first body of the pair only when it is       *)
(* strictly heavier.                                                       *)
HeavyFirstStrict(obs, first, second) ==
    obs[first].mass > obs[second].mass

(* if obs[*first].mass >= obs[*second].mass { (first, second) } *)
HeavyFirst(obs, first, second) ==
    obs[first].mass >= obs[second].mass

collide_objects(local_objects, pair) ==
    LET first == pair[1] + 1
        second == pair[2] + 1
        h == IF HeavyFirst(local_objects, first, second)
             THEN first ELSE second
        l == IF h = first THEN second ELSE first
        obh == local_objects[h]
        obl == local_objects[l]
        total_mass == obh.mass + obl.mass
        new_mass == CollideMass(obh, obl)
        merged == [obh EXCEPT !.velocity = CollideVelocity(obh, obl, total_mass),
                              !.position = CollidePosition(obh, obl, total_mass),
                              !.mass = new_mass,
                              !.radius = CollideRadius(obh, total_mass, new_mass)]
    IN  RemoveAt([local_objects EXCEPT ![h] = merged], l)

(* The indices collide_objects reads are inside the list (a Vec index out   *)
(* of bounds aborts the calling thread).                                    *)
CollideInBounds(local_objects, pair) ==
    pair[1] < Len(local_objects) /\ pair[2] < Len(local_objects)

(***************************************************************************)
(* IntegrationMethod and get_coefficients.  The k = 4 table of the source  *)
(* is irrational (w = 2^(1/3)); it is modelled by the rational table with  *)
(* the same signs, the same zero entry and the same sums (c: 1, d: 1).     *)
(***************************************************************************)
Symplectic(k) ==
    [tag |-> "Symplectic", k |-> k]

RK4 ==
    [tag |-> "RK4", k |-> 0]

Methods ==
    {Symplectic(k) : k \in 1..4} \cup {RK4}

get_coefficients(method) ==
    IF method.tag # "Symplectic" THEN <<>>
    ELSE CASE method.k = 1 -> << <<Rat(1), Rat(1)>> >>
           [] method.k = 2 -> << <<Zero, <<1, 2>> >>, <<Rat(1), <<1, 2>> >> >>
           [] method.k = 3 -> << <<Rat(1), <<-1, 24>> >>,
                                 << <<-2, 3>>, <<3, 4>> >>,
                                 << <<2, 3>>, <<7, 24>> >> >>
           [] method.k = 4 -> << << <<2, 3>>, <<4, 3>> >>,
                                 << <<-1, 6>>, <<-5, 3>> >>,
                                 << <<-1, 6>>, <<4, 3>> >>,
                                 << <<2, 3>>, Zero>> >>
           [] OTHER -> <<>>

(***************************************************************************)
(* runge_kutta_4: Some((i, j)) with the list untouched, or the advanced    *)
(* list with None.                                                         *)
(***************************************************************************)
RkAddPair(dv, bodies, positions, i, j) ==
    AddPairAt(dv, i, j, RatSub(positions[j + 1], positions[i + 1]),
              bodies[i + 1].mass, bodies[j + 1].mass)

(* A test made in every stage. *)
StageTestedAlways(state) ==
    TRUE

(* integration.rs 88: if state == 0 && distance <= ... *)
StageTested(state) ==
    state = 0

(* The pair loops of one stage; the overlap test is made in stage 0 only. *)
RECURSIVE RkLoop(_, _, _, _, _, _)
RkLoop(bodies, positions, state, i, j, dv) ==
    IF i >= Len(bodies) - 1
    THEN Ok(dv)
    ELSE IF j >= Len(bodies)
    THEN RkLoop(bodies, positions, state, i + 1, i + 2, dv)
    ELSE IF /\ StageTested(state)
            /\ RatLe(RatAbs(RatSub(positions[j + 1], positions[i + 1])),
                     RatAdd(bodies[i + 1].radius, bodies[j + 1].radius))
    THEN Err(<<i, j>>)
    ELSE RkLoop(bodies, positions, state, i, j + 1,
                RkAddPair(dv, bodies, positions, i, j))

(* s[state]: the IntermediateState (velocity, dv) of every body, given      *)
(* s[state - 1] as prev (unused in stage 0) and the result of the pair     *)
(* loops.                                                                  *)
RkIntermediate(bodies, state, prev, dt, res) ==
    IF ~res.ok
    THEN [collision |-> res.pair, s |-> <<>>, hit |-> TRUE]
    ELSE [collision |-> <<0, 0>>, hit |-> FALSE,
          s |-> [k \in 1..Len(bodies) |->
                    [velocity |-> IF state = 0
                                  THEN bodies[k].velocity
                                  ELSE RatAdd(bodies[k].velocity,
                                              RatMul(prev[k].dv, dt)),
                     dv |-> res.vec[k]]]]

RkPositions(bodies, state, prev, dt) ==
    [k \in 1..Len(bodies) |->
        IF state >= 1
        THEN RatAdd(bodies[k].position, RatMul(prev[k].velocity, dt))
        ELSE bodies[k].position]

RkStage(bodies, state, prev, dt) ==
    RkIntermediate(bodies, state, prev, dt,
                   RkLoop(bodies, RkPositions(bodies, state, prev, dt), state, 0, 1,
                          ZeroVec(Len(bodies))))

RkWeighted(a, b, c, d) ==
    RatDiv(RatAdd(RatAdd(a, RatMul(RatAdd(b, c), Rat(2))), d), Rat(6))

(* dt of a stage: 0.5 * time_step, and time_step in stage 3. *)
RkDt(time_step, state) ==
    IF state = 3 THEN time_step ELSE RatMul(<<1, 2>>, time_step)

(* for state in 0..4: s holds s[0] .. s[state - 1]; cur is s[state]. *)
RECURSIVE RkStages(_, _, _, _)
RkNextStage(bodies, time_step, state, s, cur) ==
    IF cur.hit
    THEN [hit |-> TRUE, collision |-> cur.collision, s |-> s]
    ELSE RkStages(bodies, time_step, state + 1, Append(s, cur.s))

RkStages(bodies, time_step, state, s) ==
    IF state > 3
    THEN [hit |-> FALSE, collision |-> <<0, 0>>, s |-> s]
    ELSE RkNextStage(bodies, time_step, state, s,
                     RkStage(bodies, state, IF state = 0 THEN <<>> ELSE s[state],
                             RkDt(time_step, state)))

(* engine.rs 112-125: the final update of a body from its four states. *)
RkUpdate(body, time_step, s0, s1, s2, s3) ==
    [body EXCEPT
        !.position = RatAdd(@, RatMul(RkWeighted(s0.velocity, s1.velocity,
                                                 s2.velocity, s3.velocity),
                                      time_step)),
        !.velocity = RatAdd(@, RatMul(RkWeighted(s0.dv, s1.dv, s2.dv, s3.dv),
                                      time_step)),
        !.acceleration = RkWeighted(s0.dv, s1.dv, s2.dv, s3.dv)]

(* An integrator that has already moved the velocities when it reports a   *)
(* collision.                                                              *)
RkReturnAfterWrite(local_bodies, time_step, r) ==
    IF r.hit
    THEN [bodies |-> [k \in 1..Len(local_bodies) |->
                        [local_bodies[k] EXCEPT !.velocity = RatAdd(@, Rat(1))]],
          collision |-> r.collision, hit |-> TRUE]
    ELSE [collision |-> <<0, 0>>, hit |-> FALSE,
          bodies |-> [k \in 1..Len(local_bodies) |->
                        RkUpdate(local_bodies[k], time_step,
                                 r.s[1][k], r.s[2][k], r.s[3][k], r.s[4][k])]]

RkReturn(local_bodies, time_step, r) ==
    IF r.hit
    THEN [bodies |-> local_bodies, collision |-> r.collision, hit |-> TRUE]
    ELSE [collision |-> <<0, 0>>, hit |-> FALSE,
          bodies |-> [k \in 1..Len(local_bodies) |->
                        RkUpdate(local_bodies[k], time_step,
                                 r.s[1][k], r.s[2][k], r.s[3][k], r.s[4][k])]]

runge_kutta_4(local_bodies, time_step) ==
    RkReturn(local_bodies, time_step, RkStages(local_bodies, time_step, 0, <<>>))

(***************************************************************************)
(* Engine::get_mt_splices: the work items of the worker threads.           *)
(***************************************************************************)
RECURSIVE Combinations(_, _, _)
Combinations(num_bodies, i, j) ==
    IF i >= num_bodies - 1
    THEN <<>>
    ELSE IF j >= num_bodies
    THEN Combinations(num_bodies, i + 1, i + 2)
    ELSE << <<i, j>> >> \o Combinations(num_bodies, i, j + 1)

(* A thread count that is the number of pairs. *)
MinIsFirst(a, b) ==
    a

Min(a, b) ==
    IF a <= b THEN a ELSE b

Max(a, b) ==
    IF a >= b THEN a ELSE b

(* A bucket size without the remainder of the division. *)
BucketSizeNoRemainder(i, len, max_threads) ==
    len \div max_threads

(* The number of pairs bucket i takes off the end of the list. *)
BucketSize(i, len, max_threads) ==
    (IF i < len % max_threads THEN 1 ELSE 0) + len \div max_threads

(* A split that takes the bucket from the front of the list. *)
SplitOffFront(combinations, num) ==
    [bucket |-> SubSeq(combinations, 1, num),
     left |-> SubSeq(combinations, num + 1, Len(combinations))]

(* combinations.split_off(combinations.len() - num): the bucket is the     *)
(* last num pairs, and the list keeps the pairs before them.               *)
SplitOff(combinations, num) ==
    [bucket |-> SubSeq(combinations, Len(combinations) - num + 1, Len(combinations)),
     left |-> SubSeq(combinations, 1, Len(combinations) - num)]

(* The loop over the buckets: combinations is what split_off has left. *)
RECURSIVE Buckets(_, _, _, _)
BucketsFrom(split, i, len, max_threads) ==
    << [start |-> split.bucket[1], end |-> split.bucket[Len(split.bucket)]] >>
    \o Buckets(split.left, i + 1, len, max_threads)

Buckets(combinations, i, len, max_threads) ==
    IF i >= max_threads
    THEN <<>>
    ELSE BucketsFrom(SplitOff(combinations, BucketSize(i, len, max_threads)),
                     i, len, max_threads)

get_mt_splices(num_bodies, num_threads) ==
    IF num_bodies < 2
    THEN <<>>
    ELSE LET combinations == Combinations(num_bodies, 0, 1)
             len == Len(combinations)
         IN  Buckets(combinations, 0, len, Min(len, num_threads))

(***************************************************************************)
(* One symplectic step of the single-threaded path of the driver           *)
(* (engine.rs 106-145), as a function of the list: the drift of every      *)
(* slot, and for d # 0 the force evaluation, retried after each merge.     *)
(* signals records the list at each moment symplectic returned Err.        *)
(***************************************************************************)
Drift(bodies, time_step, c) ==
    [k \in 1..Len(bodies) |->
        [bodies[k] EXCEPT
            !.position = RatAdd(@, RatMul(RatMul(time_step, c), bodies[k].velocity))]]

(* zip: the pairs up to the shorter of the two lists. *)
Kick(bodies, time_step, d, vectors) ==
    [k \in 1..Len(bodies) |->
        IF k <= Len(vectors)
        THEN [bodies[k] EXCEPT
                !.velocity = RatAdd(@, RatMul(RatMul(time_step, d), vectors[k])),
                !.acceleration = vectors[k]]
        ELSE bodies[k]]

(* A test that lets a driver go on with a single body. *)
ListSpentWhenEmpty(bodies) ==
    Len(bodies) < 1

(* if objects_local.len() < 2 (engine.rs 136, 164 and 219). *)
ListSpent(bodies) ==
    Len(bodies) < 2

(* A merge after which the slot is left without its kick. *)
AfterMergeSTWithoutRetry(merged, time_step, d, slot_no, sig) ==
    [bodies |-> merged, alive |-> ~ListSpent(merged), signals |-> sig]

RECURSIVE KickLoopST(_, _, _, _, _)
(* engine.rs 125-141: the merge, and the retry unless the list is spent. *)
AfterMergeST(merged, time_step, d, slot_no, sig) ==
    IF ListSpent(merged)
    THEN [bodies |-> merged, alive |-> FALSE, signals |-> sig]
    ELSE KickLoopST(merged, time_step, d, slot_no, sig)

KickOrMergeST(bodies, time_step, d, slot_no, signals, res) ==
    IF res.ok
    THEN [bodies |-> Kick(bodies, time_step, d, res.vec), alive |-> TRUE,
          signals |-> signals]
    ELSE AfterMergeST(collide_objects(bodies, res.pair), time_step, d, slot_no,
                      Append(signals, [bodies |-> bodies, slot |-> slot_no]))

KickLoopST(bodies, time_step, d, slot_no, signals) ==
    KickOrMergeST(bodies, time_step, d, slot_no, signals, symplectic(bodies))

RECURSIVE SlotsST(_, _, _, _, _)
AfterKickST(k, table, slot_no, time_step) ==
    IF k.alive
    THEN SlotsST(k.bodies, table, slot_no + 1, time_step, k.signals)
    ELSE k

SlotST(drifted, table, slot_no, time_step, signals) ==
    IF table[slot_no][2] = Zero
    THEN SlotsST(drifted, table, slot_no + 1, time_step, signals)
    ELSE AfterKickST(KickLoopST(drifted, time_step, table[slot_no][2], slot_no,
                                signals),
                     table, slot_no, time_step)

SlotsST(bodies, table, slot_no, time_step, signals) ==
    IF slot_no > Len(table)
    THEN [bodies |-> bodies, alive |-> TRUE, signals |-> signals]
    ELSE SlotST(Drift(bodies, time_step, table[slot_no][1]), table, slot_no,
                time_step, signals)

StepST(bodies, method, time_step) ==
    SlotsST(bodies, get_coefficients(method), 1, time_step, <<>>)

(* One iteration of the RK4 loop of the driver (engine.rs 153-172). *)
MergedRK4(merged, r) ==
    [bodies |-> merged, alive |-> ~ListSpent(merged),
     signals |-> << [bodies |-> r.bodies, slot |-> 0] >>]

AfterRK4(r) ==
    IF r.hit
    THEN MergedRK4(collide_objects(r.bodies, r.collision), r)
    ELSE [bodies |-> r.bodies, alive |-> TRUE, signals |-> <<>>]

StepRK4(bodies, time_step) ==
    AfterRK4(runge_kutta_4(bodies, time_step))

(***************************************************************************)
(* Bounds of the model.                                                    *)
(***************************************************************************)
(* Steps of one epoch (steps_until_update: 1000, then re-measured, in the  *)
(* source; the cadence formula is modelled apart).                         *)
EpochSteps ==
    2

(* Integration steps the driver threads take in one behaviour; past it the *)
(* epochs go on with no step.                                              *)
MaxSteps ==
    2

(* num_threads the consumer can select (keys 1..9 in the source). *)
MaxThreads ==
    3

(* Length of the body list (the add-body command stops there). *)
MaxBodies ==
    3

(***************************************************************************)
(* State.                                                                  *)
(***************************************************************************)
VARIABLES
    objects,          \* Engine.objects: the snapshot buffer
    params,           \* Engine.params: SimulatorControl
    thread_stopped,   \* Engine.thread_stopped
    live_drivers,     \* driver threads spawned and not yet ended
    dpc,              \* position of the driver thread
    objects_local,    \* the working body list
    params_local,     \* the driver's copy of params
    time_step,        \* the driver's dt
    i,                \* steps done in the epoch
    slot,             \* coefficient slot of the step in progress (parallel path)
    steps_total,      \* steps counted by all driver threads
    work_queue,       \* WorkerControl.work_queue
    thread_results,   \* WorkerControl.thread_results
    worker_kill,      \* WorkerControl.worker_kill
    wpc,              \* position of each worker thread (handles)
    step_start,       \* history: the working list when the current step began
    signals,          \* history: the lists at the collision signals of that step
    published,        \* history: the list started from or last published
    fn                \* argument and result of the function under test

engineVars == <<objects, params, thread_stopped>>

driverVars == <<live_drivers, dpc, objects_local, params_local, time_step, i, slot,
                steps_total>>

workerVars == <<work_queue, thread_results, worker_kill, wpc>>

historyVars == <<step_start, signals, published>>

vars == <<objects, params, thread_stopped, live_drivers, dpc, objects_local,
          params_local, time_step, i, slot, steps_total, work_queue, thread_results,
          worker_kill, wpc, step_start, signals, published, fn>>

(***************************************************************************)
(* Initial state: Engine with a body list of the scenario set, the driver  *)
(* not started.                                                            *)
(***************************************************************************)
Scenarios ==
    { << Body(1, 2, 1, 0, 0), Body(2, 1, 1, 3, 0) >>,
      << Body(1, 2, 1, 0, 0), Body(2, 1, 1, 26, -1) >>,
      << Body(1, 1, 1, 0, 0), Body(2, 3, 1, 5, 0), Body(3, 1, 3, 4, 0) >>,
      << Body(1, 1, 1, 0, 0), Body(2, 2, 1, 3, 0), Body(3, 1, 1, 4, 0) >>,
      << Body(1, 1, 1, 0, 0) >>,
      << >> }

NoParams ==
    [is_running |-> FALSE, method |-> RK4, num_threads |-> 1, time_step |-> Zero]

NoFn ==
    [op |-> "none"]

DriverIdle ==
    /\ live_drivers = 0
    /\ steps_total = 0
    /\ dpc = "none"
    /\ objects_local = <<>>
    /\ params_local = NoParams
    /\ time_step = Zero
    /\ i = 0
    /\ slot = 0
    /\ work_queue = <<>>
    /\ thread_results = <<>>
    /\ worker_kill = FALSE
    /\ wpc = <<>>
    /\ step_start = <<>>
    /\ signals = <<>>

Init ==
    /\ objects \in Scenarios
    /\ params \in [is_running : {FALSE}, method : Methods,
                   num_threads : 1..MaxThreads, time_step : {Rat(24)}]
    /\ thread_stopped = TRUE
    /\ published = objects
    /\ fn = NoFn
    /\ DriverIdle

(***************************************************************************)
(* The barrier (std::sync::Barrier of num_threads + 1 parties): the        *)
(* parties blocked in wait(), and what each does once released.  A worker  *)
(* touches nothing between its release from the second wait (line 428 or   *)
(* 441) and its next wait at the top of its loop (line 418), so the two    *)
(* are one step: a worker is at "atA" from its spawn and from each such    *)
(* release on.  So are the driver's two waits of lines 187 and 188.        *)
(***************************************************************************)
Waiting ==
    Cardinality({w \in DOMAIN wpc : wpc[w] \in {"atA", "atB"}})
    + (IF dpc \in {"atA", "atB", "atKill"} THEN 1 ELSE 0)

LastArrival ==
    Waiting + 1 = Len(thread_results) + 1

ReleasedW ==
    [w \in DOMAIN wpc |->
        CASE wpc[w] = "atA" -> "run"
          [] wpc[w] = "atB" -> "atA"
          [] OTHER -> wpc[w]]

(* A driver that does not wait for the work to be completed. *)
SecondWaitSkipped ==
    "gather"

(* engine.rs 188: released from its first wait the driver is in its second. *)
SecondWait ==
    "atB"

ReleasedD ==
    CASE dpc = "atA" -> SecondWait
      [] dpc = "atB" -> "gather"
      [] dpc = "atKill" -> "join"
      [] OTHER -> dpc

(***************************************************************************)
(* Consumer commands (engine.rs start_mt, stop; events.rs key handlers).   *)
(* The driver holds the params lock from line 262 until it has joined its  *)
(* workers, and the commands that lock params wait for it.                 *)
(***************************************************************************)
ParamsFree ==
    dpc \notin {"atKill", "join"}

(* A start that does not read thread_stopped. *)
StartGuardOnCountOnly ==
    Len(objects) >= 2

(* A guard that tests only the flag. *)
StartGuardOnFlagOnly ==
    thread_stopped

StartGuard ==
    thread_stopped /\ Len(objects) >= 2

Start ==
    IF StartGuard
    THEN /\ thread_stopped' = FALSE
         /\ params' = [params EXCEPT !.is_running = TRUE]
         /\ objects_local' = objects
         /\ published' = objects
         /\ dpc' = "init"
         /\ live_drivers' = live_drivers + 1
         /\ UNCHANGED <<objects, params_local, time_step, i, slot, steps_total,
                        workerVars, step_start, signals, fn>>
    ELSE UNCHANGED vars

Stop ==
    /\ ParamsFree
    /\ params' = [params EXCEPT !.is_running = FALSE]
    /\ UNCHANGED <<objects, thread_stopped, driverVars, workerVars, historyVars, fn>>

(* A cycle that goes from Symplectic(4) straight back to Symplectic(1). *)
NextMethodWithoutRK4(method) ==
    IF method.tag = "Symplectic" /\ method.k < 4
    THEN Symplectic(method.k + 1)
    ELSE Symplectic(1)

NextMethod(method) ==
    IF method.tag = "Symplectic"
    THEN IF method.k = 4 THEN RK4 ELSE Symplectic(method.k + 1)
    ELSE Symplectic(1)

CycleMethod ==
    /\ ParamsFree
    /\ params' = [params EXCEPT !.method = NextMethod(@)]
    /\ UNCHANGED <<objects, thread_stopped, driverVars, workerVars, historyVars, fn>>

SetThreads(threads) ==
    /\ ParamsFree
    /\ params' = [params EXCEPT !.num_threads = threads]
    /\ UNCHANGED <<objects, thread_stopped, driverVars, workerVars, historyVars, fn>>

MaxId(bodies) ==
    IF bodies = <<>> THEN 0
    ELSE CHOOSE m \in {bodies[k].id : k \in DOMAIN bodies} :
            \A k \in DOMAIN bodies : bodies[k].id <= m

(* The body of the add-body command (a random planet on an orbit around    *)
(* objects[0] in the source).                                              *)
NewObject ==
    Body(Max(MaxId(objects), MaxId(objects_local)) + 1, 1, 1, 60, 0)

AddBody ==
    /\ ParamsFree
    /\ ~params.is_running
    /\ Len(objects) >= 1
    /\ Len(objects) < MaxBodies
    /\ objects' = Append(objects, NewObject)
    /\ UNCHANGED <<params, thread_stopped, driverVars, workerVars, historyVars, fn>>

(***************************************************************************)
(* The driver thread (the closure of start_mt, engine.rs 68-340).          *)
(***************************************************************************)
(* A test that takes every method for a symplectic one. *)
UseSymplecticAlways(p) ==
    TRUE

(* engine.rs 83-86 and 321-324: use_symplectic. *)
UseSymplectic(p) ==
    p.method.tag = "Symplectic"

(* engine.rs 101: the single-threaded branch of the loop. *)
SingleThreaded(p) ==
    p.num_threads = 1 \/ ~UseSymplectic(p)

(* prepare_worker_threads and, for a parallel symplectic configuration,    *)
(* start_worker_threads (engine.rs 88-97 and 319-335).                     *)
PrepareWorkers(p, num_objects) ==
    /\ thread_results' = [w \in 1..p.num_threads |-> Ok(<<>>)]
    /\ work_queue' = get_mt_splices(num_objects, p.num_threads)
    /\ worker_kill' = FALSE
    /\ wpc' = IF UseSymplectic(p) /\ p.num_threads > 1
              THEN [w \in 1..p.num_threads |-> "atA"]
              ELSE <<>>

DriverInit ==
    /\ dpc = "init"
    /\ params_local' = params
    /\ time_step' = params.time_step
    /\ i' = 0
    /\ slot' = 0
    /\ PrepareWorkers(params, Len(objects_local))
    /\ dpc' = "step"
    /\ UNCHANGED <<engineVars, live_drivers, objects_local, steps_total,
                   historyVars, fn>>

(* while i < steps_until_update, with the bound of the model. *)
MoreSteps ==
    i < EpochSteps /\ steps_total < MaxSteps

(* engine.rs 102-173: one iteration of the single-threaded while loop,    *)
(* r being what the step made of the list.                                 *)
(* A step that reads the method from the shared parameter block. *)
StepResultSTCommanded(p, bodies, dt) ==
    IF UseSymplectic(params)
    THEN StepST(bodies, params.method, dt)
    ELSE StepRK4(bodies, dt)

StepResultST(p, bodies, dt) ==
    IF UseSymplectic(p) THEN StepST(bodies, p.method, dt) ELSE StepRK4(bodies, dt)

AfterStepST(r) ==
    /\ objects_local' = r.bodies
    /\ signals' = r.signals
    /\ IF r.alive
       THEN /\ i' = i + 1
            /\ steps_total' = steps_total + 1
            /\ dpc' = "step"
            /\ UNCHANGED params
       ELSE /\ params' = [params EXCEPT !.is_running = FALSE]
            /\ dpc' = "publish"
            /\ UNCHANGED <<i, steps_total>>

DriverStepST ==
    /\ dpc = "step"
    /\ MoreSteps
    /\ SingleThreaded(params_local)
    /\ step_start' = objects_local
    /\ AfterStepST(StepResultST(params_local, objects_local, time_step))
    /\ UNCHANGED <<objects, thread_stopped, live_drivers, params_local, time_step,
                   slot, workerVars, published, fn>>

(* engine.rs 177-185 and 248-250: the drifts of the slots from slot_no on,  *)
(* up to the next slot with d # 0 (kick) or the end of the table.          *)
RECURSIVE AdvanceMT(_, _, _, _)
AdvanceSlotMT(drifted, table, slot_no, dt) ==
    IF table[slot_no][2] # Zero
    THEN [bodies |-> drifted, slot |-> slot_no, kick |-> TRUE]
    ELSE AdvanceMT(drifted, table, slot_no + 1, dt)

AdvanceMT(bodies, table, slot_no, dt) ==
    IF slot_no > Len(table)
    THEN [bodies |-> bodies, slot |-> 0, kick |-> FALSE]
    ELSE AdvanceSlotMT(IF table[slot_no][1] # Zero
                       THEN Drift(bodies, dt, table[slot_no][1])
                       ELSE bodies,
                       table, slot_no, dt)

(* The driver goes on from slot_no with the list bodies: to the barrier of *)
(* the next kick, or to the next step.                                     *)
GoOnTo(a) ==
    /\ objects_local' = a.bodies
    /\ slot' = a.slot
    /\ IF a.kick
       THEN /\ dpc' = "kick"
            /\ UNCHANGED <<i, steps_total>>
       ELSE /\ dpc' = "step"
            /\ i' = i + 1
            /\ steps_total' = steps_total + 1

GoOnMT(bodies, slot_no) ==
    GoOnTo(AdvanceMT(bodies, get_coefficients(params_local.method), slot_no,
                     time_step))

DriverBeginStepMT ==
    /\ dpc = "step"
    /\ MoreSteps
    /\ ~SingleThreaded(params_local)
    /\ step_start' = objects_local
    /\ signals' = <<>>
    /\ GoOnMT(objects_local, 1)
    /\ UNCHANGED <<engineVars, live_drivers, params_local, time_step, workerVars,
                   published, fn>>

(* engine.rs 187-188: the driver's wait releases the workers, and it      *)
(* waits again at once for the work to be completed.                       *)
DriverRelease ==
    /\ dpc = "kick"
    /\ IF LastArrival
       THEN dpc' = SecondWait /\ wpc' = ReleasedW
       ELSE dpc' = "atA" /\ UNCHANGED wpc
    /\ UNCHANGED <<engineVars, live_drivers, objects_local, params_local, time_step,
                   i, slot, steps_total, work_queue, thread_results, worker_kill,
                   historyVars, fn>>

(* A scan that acts on the last slot holding an Err. *)
LastErr(results) ==
    LET errs == {w \in DOMAIN results : ~results[w].ok}
    IN  IF errs = {} THEN 0 ELSE CHOOSE w \in errs : \A v \in errs : w >= v

(* engine.rs 196-235: the slots read in order; the first Err ends the scan. *)
FirstErr(results) ==
    LET errs == {w \in DOMAIN results : ~results[w].ok}
    IN  IF errs = {} THEN 0 ELSE CHOOSE w \in errs : \A v \in errs : w <= v

AddZip(acc, vectors) ==
    [k \in DOMAIN acc |->
        IF k <= Len(vectors) THEN RatAdd(acc[k], vectors[k]) ELSE acc[k]]

RECURSIVE SumResults(_, _, _)
SumResults(results, w, acc) ==
    IF w > Len(results)
    THEN acc
    ELSE SumResults(results, w + 1, AddZip(acc, results[w].vec))

(* engine.rs 214-232: the merge of a reported pair, then the end of the   *)
(* run or the new partition and the retry.                                 *)
AfterMergeMT(merged) ==
    /\ objects_local' = merged
    /\ signals' = Append(signals, [bodies |-> objects_local, slot |-> slot])
    /\ IF ListSpent(merged)
       THEN /\ params' = [params EXCEPT !.is_running = FALSE]
            /\ dpc' = "publish"
            /\ UNCHANGED work_queue
       ELSE /\ work_queue' = get_mt_splices(Len(merged), params_local.num_threads)
            /\ dpc' = "kick"
            /\ UNCHANGED params
    /\ UNCHANGED <<live_drivers, slot, i, steps_total>>

(* engine.rs 190-246: the driver gathers the results of a barrier round,   *)
(* e being the first slot that holds an Err (0: none).  A collide_objects  *)
(* on an index outside the list aborts the driver thread.                  *)
GatherFrom(e) ==
    IF e = 0
    THEN /\ GoOnMT(Kick(objects_local, time_step,
                        get_coefficients(params_local.method)[slot][2],
                        SumResults(thread_results, 1, ZeroVec(Len(objects_local)))),
                   slot + 1)
         /\ UNCHANGED <<params, live_drivers, work_queue, signals>>
    ELSE IF ~CollideInBounds(objects_local, thread_results[e].pair)
    THEN /\ dpc' = "dead"
         /\ live_drivers' = live_drivers - 1
         /\ UNCHANGED <<params, objects_local, slot, i, steps_total, work_queue,
                        signals>>
    ELSE AfterMergeMT(collide_objects(objects_local, thread_results[e].pair))

DriverGather ==
    /\ dpc = "gather"
    /\ GatherFrom(FirstErr(thread_results))
    /\ UNCHANGED <<objects, thread_stopped, params_local, time_step, thread_results,
                   worker_kill, wpc, step_start, published, fn>>

(* engine.rs 254-260: the snapshot buffer is cleared and refilled under    *)
(* its lock.                                                               *)
DriverPublish ==
    /\ \/ dpc = "publish"
       \/ dpc = "step" /\ ~MoreSteps
    /\ objects' = objects_local
    /\ published' = objects_local
    /\ dpc' = "epoch"
    /\ UNCHANGED <<params, thread_stopped, live_drivers, objects_local, params_local,
                   time_step, i, slot, steps_total, workerVars, step_start, signals,
                   fn>>

(* The thread has ended: its locals and its WorkerControl are dropped;     *)
(* wpc keeps the position of the worker threads it had spawned.            *)
DriverEnds ==
    /\ dpc' = "none"
    /\ objects_local' = <<>>
    /\ params_local' = NoParams
    /\ i' = 0
    /\ slot' = 0
    /\ work_queue' = <<>>
    /\ thread_results' = <<>>
    /\ worker_kill' = FALSE
    /\ wpc' = wpc

(* engine.rs 314-335, after the workers are joined: the thread ends, or    *)
(* goes on with the new configuration.                                     *)
StopOrReconfigure ==
    IF ~params.is_running
    THEN /\ thread_stopped' = TRUE
         /\ live_drivers' = live_drivers - 1
         /\ DriverEnds
    ELSE /\ params_local' = params
         /\ PrepareWorkers(params, Len(objects_local))
         /\ i' = 0
         /\ dpc' = "step"
         /\ UNCHANGED <<thread_stopped, live_drivers, objects_local, slot>>

(* A test that rebuilds nothing while the run goes on. *)
MustRebuildOnStop ==
    ~params.is_running

(* engine.rs 302-305: the workers are torn down on a stop and on a change  *)
(* of the commanded method or thread count.                                *)
MustRebuild ==
    \/ ~params.is_running
    \/ params_local.num_threads # params.num_threads
    \/ params_local.method # params.method

(* engine.rs 262-338: the epoch boundary, under the params lock. *)
DriverEpoch ==
    /\ dpc = "epoch"
    /\ time_step' = IF ~params.is_running THEN Zero ELSE params.time_step
    /\ step_start' = <<>>
    /\ signals' = <<>>
    /\ IF MustRebuild
       THEN IF wpc # <<>>
            THEN /\ worker_kill' = TRUE
                 /\ IF LastArrival
                    THEN dpc' = "join" /\ wpc' = ReleasedW
                    ELSE dpc' = "atKill" /\ UNCHANGED wpc
                 /\ UNCHANGED <<thread_stopped, live_drivers, objects_local,
                                params_local, i, slot, work_queue, thread_results>>
            ELSE StopOrReconfigure
       ELSE /\ i' = 0
            /\ dpc' = "step"
            /\ UNCHANGED <<thread_stopped, live_drivers, objects_local, params_local,
                           slot, workerVars>>
    /\ UNCHANGED <<objects, params, steps_total, published, fn>>

(* A join that returns while its thread is still running. *)
HandlesDetached ==
    TRUE

(* engine.rs 311: handles.into_iter().for_each(|h| h.join().unwrap()). *)
HandlesJoined ==
    \A w \in DOMAIN wpc : wpc[w] = "done"

DriverJoin ==
    /\ dpc = "join"
    /\ HandlesJoined
    /\ time_step' = IF ~params.is_running THEN Zero ELSE time_step
    /\ StopOrReconfigure
    /\ UNCHANGED <<objects, params, steps_total, historyVars, fn>>

(***************************************************************************)
(* A worker thread (start_worker_threads, engine.rs 416-443); w is         *)
(* i_thread + 1.                                                           *)
(***************************************************************************)
(* engine.rs 418-441: released from the wait at the top of its loop, the   *)
(* worker reads the kill flag, its work item, writes its result and waits  *)
(* again.                                                                  *)
WorkerResult(w) ==
    symplectic_mt(objects_local, work_queue[w].start, work_queue[w].end)

WorkerRun(w) ==
    /\ w \in DOMAIN wpc
    /\ wpc[w] = "run"
    /\ IF worker_kill
       THEN /\ wpc' = [wpc EXCEPT ![w] = "done"]
            /\ UNCHANGED <<dpc, thread_results>>
       ELSE /\ thread_results' = IF Len(work_queue) <= w - 1
                                 THEN thread_results
                                 ELSE [thread_results EXCEPT ![w] = WorkerResult(w)]
            /\ IF LastArrival
               THEN wpc' = [ReleasedW EXCEPT ![w] = "atA"] /\ dpc' = ReleasedD
               ELSE wpc' = [wpc EXCEPT ![w] = "atB"] /\ UNCHANGED dpc
    /\ UNCHANGED <<engineVars, live_drivers, objects_local, params_local, time_step,
                   i, slot, steps_total, work_queue, worker_kill, historyVars, fn>>

Next ==
    \/ Start
    \/ Stop
    \/ CycleMethod
    \/ \E threads \in 1..MaxThreads : SetThreads(threads)
    \/ AddBody
    \/ DriverInit
    \/ DriverStepST
    \/ DriverBeginStepMT
    \/ DriverRelease
    \/ DriverGather
    \/ DriverPublish
    \/ DriverEpoch
    \/ DriverJoin
    \/ \E w \in 1..MaxThreads : WorkerRun(w)

Spec ==
    Init /\ [][Next]_vars


(* The steps of the driver thread and of its worker threads. *)
DriverNext ==
    \/ DriverInit
    \/ DriverStepST
    \/ DriverBeginStepMT
    \/ DriverRelease
    \/ DriverGather
    \/ DriverPublish
    \/ DriverEpoch
    \/ DriverJoin

(* The guards of these steps and of WorkerRun: the driver is blocked only   *)
(* in a barrier wait or in the join of a worker that has not ended, a      *)
(* worker only in a barrier wait.                                          *)
ThreadsCanStep ==
    \/ dpc \in {"init", "step", "kick", "gather", "publish", "epoch"}
    \/ dpc = "join" /\ HandlesJoined
    \/ \E w \in DOMAIN wpc : wpc[w] = "run"

(***************************************************************************)
(* collide_objects as a function of its arguments: lists of three bodies   *)
(* with every mass and velocity of the ranges below, and every ordered     *)
(* pair of distinct indices.                                               *)
(***************************************************************************)
MaxMass ==
    3

MaxSpeed ==
    1

EngineIdle ==
    /\ objects = <<>>
    /\ params = NoParams
    /\ thread_stopped = TRUE
    /\ published = <<>>
    /\ DriverIdle

modelVars == <<engineVars, driverVars, workerVars, historyVars>>

CollideInputs ==
    {[op |-> "input",
      bodies |-> << Body(1, m[1], 1, 0, v[1]), Body(2, m[2], 1, 3, v[2]),
                    Body(3, m[3], 2, 6, v[3]) >>,
      pair |-> pair] :
        m \in [1..3 -> 1..MaxMass], v \in [1..3 -> (-MaxSpeed)..MaxSpeed],
        pair \in {pq \in (0..2) \X (0..2) : pq[1] # pq[2]}}

InitCollide ==
    /\ fn \in CollideInputs
    /\ EngineIdle

ApplyCollide ==
    /\ fn.op = "input"
    /\ fn' = [op |-> "collide_objects", before |-> fn.bodies, pair |-> fn.pair,
              after |-> collide_objects(fn.bodies, fn.pair)]
    /\ UNCHANGED modelVars

SpecCollide ==
    InitCollide /\ [][ApplyCollide]_vars

(***************************************************************************)
(* get_mt_splices as a function of its arguments.                          *)
(***************************************************************************)
SplicesMaxBodies ==
    6

SplicesMaxThreads ==
    16

(* engine.rs 424-430: what worker i_thread finds in the work queue. *)
NoWork ==
    [start |-> <<0, 0>>, end |-> <<0, 0>>]

WorkItemOf(work_item_queue, i_thread) ==
    IF Len(work_item_queue) <= i_thread
    THEN NoWork
    ELSE work_item_queue[i_thread + 1]

InitSplices ==
    /\ fn \in [op : {"input"}, num_bodies : 0..SplicesMaxBodies,
               num_threads : 1..SplicesMaxThreads]
    /\ EngineIdle

ApplySplices ==
    /\ fn.op = "input"
    /\ fn' = [op |-> "get_mt_splices", num_bodies |-> fn.num_bodies,
              num_threads |-> fn.num_threads,
              slices |-> get_mt_splices(fn.num_bodies, fn.num_threads),
              work |-> [w \in 1..fn.num_threads |->
                          WorkItemOf(get_mt_splices(fn.num_bodies, fn.num_threads),
                                     w - 1)]]
    /\ UNCHANGED modelVars

SpecSplices ==
    InitSplices /\ [][ApplySplices]_vars

(***************************************************************************)
(* runge_kutta_4 as a function of its arguments: lists of two and of three *)
(* bodies, some overlapping where they are, some only where the later      *)
(* stages put them, some never.                                            *)
(***************************************************************************)
Rk4Lists ==
    {<< Body(1, m[1], 1, 0, v[1]), Body(2, m[2], 1, x[1], v[2]) >> :
        m \in [1..2 -> 1..2], v \in [1..2 -> {-1, 0, 1}], x \in [1..1 -> {2, 3, 13}]}
    \cup
    {<< Body(1, 1, 1, 0, v[1]), Body(2, m[2], 1, x[1], v[2]),
        Body(3, m[3], 1, x[2], v[3]) >> :
        m \in [1..3 -> 1..2], v \in [1..3 -> {-1, 0, 1}],
        x \in {<<2, 4>>, <<3, 5>>, <<13, 15>>, <<13, 40>>, <<3, 40>>, <<40, 1>>}}

InitRk4 ==
    /\ fn \in [op : {"input"}, bodies : Rk4Lists, time_step : {Rat(2), Rat(24)}]
    /\ EngineIdle

ApplyRk4 ==
    /\ fn.op = "input"
    /\ fn' = [op |-> "runge_kutta_4", before |-> fn.bodies,
              time_step |-> fn.time_step,
              hit |-> runge_kutta_4(fn.bodies, fn.time_step).hit,
              collision |-> runge_kutta_4(fn.bodies, fn.time_step).collision,
              after |-> runge_kutta_4(fn.bodies, fn.time_step).bodies]
    /\ UNCHANGED modelVars

SpecRk4 ==
    InitRk4 /\ [][ApplyRk4]_vars

(***************************************************************************)
(* symplectic_mt as a function of its arguments: lists of two to four      *)
(* bodies of radius 1, apart, touching (distance 2) or overlapping, and    *)
(* every fence start <= end of their pairs.                                *)
(***************************************************************************)
MtLists ==
    {<< Body(1, m[1], 1, 0, 0), Body(2, m[2], 1, x[1], 0) >> :
        m \in [1..2 -> 1..2], x \in [1..1 -> {1, 2, 3}]}
    \cup
    {<< Body(1, 1, 1, 0, 0), Body(2, m[1], 1, x[1], 0), Body(3, m[2], 1, x[2], 0) >> :
        m \in [1..2 -> 1..2], x \in {2, 3} \X {4, 5, 6, 20}}
    \cup
    {<< Body(1, 1, 1, 0, 0), Body(2, m[1], 1, x[1], 0), Body(3, m[2], 1, x[2], 0),
        Body(4, 1, 1, x[3], 0) >> :
        m \in [1..2 -> 1..2], x \in {2, 3} \X {4, 5, 6, 20} \X {8, 9, 30}}

InitMt ==
    /\ fn \in [op : {"input"}, bodies : MtLists, start : AllPairs(4),
               end : AllPairs(4)]
    /\ fn.start \in AllPairs(Len(fn.bodies))
    /\ fn.end \in AllPairs(Len(fn.bodies))
    /\ PairLe(fn.start, fn.end)
    /\ EngineIdle

ApplyMt ==
    /\ fn.op = "input"
    /\ fn' = [op |-> "symplectic_mt", before |-> fn.bodies, start |-> fn.start,
              end |-> fn.end,
              result |-> symplectic_mt(fn.bodies, fn.start, fn.end),
              whole |-> symplectic(fn.bodies)]
    /\ UNCHANGED modelVars

SpecMt ==
    InitMt /\ [][ApplyMt]_vars

(***************************************************************************)
(* The simulated-time accounting of the driver thread (engine.rs 71-78 and *)
(* 280-298) with the commands that write the parameters it reads           *)
(* (events.rs keys 107, 109 and 84).  fn holds the parameter block, the    *)
(* driver's locals and, as history, the time_elapsed the driver started    *)
(* from and the sum of the dt of the steps it has counted.                 *)
(***************************************************************************)
TimeMaxSteps ==
    4

TimeMaxEpochs ==
    3

TimeMaxPresses ==
    2

(* A commit that drops the steps counted with the old dt. *)
CommittedNothing(time_running, time_step_counter, dt) ==
    time_running

(* engine.rs 281, 287 and 295: time_step_counter as f64 * time_step +      *)
(* time_running.                                                           *)
Committed(time_running, time_step_counter, dt) ==
    RatAdd(RatMul(Rat(time_step_counter), dt), time_running)

(* engine.rs 71-78: the locals of a driver started with the block p. *)
TimeStarted(p) ==
    [op |-> "time", params |-> p,
     time_step |-> IF p.use_target_speed THEN <<1, 1000>> ELSE p.time_step,
     time_running |-> p.time_elapsed, time_step_counter |-> 0,
     started |-> p.time_elapsed, sum |-> Zero, reported |-> FALSE,
     steps |-> 0, epochs |-> 0, presses |-> 0]

InitTime ==
    /\ \E u \in BOOLEAN, e \in {Zero, Rat(100)} :
          fn = TimeStarted([time_step |-> Rat(24), target_speed |-> Rat(48),
                            use_target_speed |-> u, time_elapsed |-> e])
    /\ EngineIdle

(* i += 1; time_step_counter += 1 after a step made with the driver's dt. *)
TimeStepCounted ==
    /\ fn.op = "time"
    /\ fn.steps < TimeMaxSteps
    /\ fn' = [fn EXCEPT !.time_step_counter = @ + 1,
                        !.sum = RatAdd(@, fn.time_step),
                        !.steps = @ + 1,
                        !.reported = FALSE]
    /\ UNCHANGED modelVars

(* engine.rs 280-295: with use_target_speed the steps counted are        *)
(* committed and dt becomes target_speed / speed; without it they are      *)
(* committed when the commanded time_step differs from dt, which then      *)
(* becomes it.                                                             *)
EpochTime(f, speed) ==
    IF f.params.use_target_speed
    THEN [f EXCEPT !.time_running = Committed(f.time_running, f.time_step_counter,
                                              f.time_step),
                   !.time_step_counter = 0,
                   !.time_step = RatDiv(f.params.target_speed, speed),
                   !.params.time_step = RatDiv(f.params.target_speed, speed),
                   !.params.time_elapsed
                       = Committed(Committed(f.time_running, f.time_step_counter,
                                             f.time_step),
                                   0, RatDiv(f.params.target_speed, speed))]
    ELSE IF f.params.time_step # f.time_step
    THEN [f EXCEPT !.time_running = Committed(f.time_running, f.time_step_counter,
                                              f.time_step),
                   !.time_step_counter = 0,
                   !.time_step = f.params.time_step,
                   !.params.target_speed = RatMul(f.params.time_step, speed),
                   !.params.time_elapsed
                       = Committed(Committed(f.time_running, f.time_step_counter,
                                             f.time_step),
                                   0, f.params.time_step)]
    ELSE [f EXCEPT !.params.target_speed = RatMul(f.time_step, speed),
                   !.params.time_elapsed
                       = Committed(f.time_running, f.time_step_counter, f.time_step)]

(* The boundary, with the speed measured (steps/s) 1 or 2. *)
TimeEpoch ==
    /\ fn.op = "time"
    /\ fn.epochs < TimeMaxEpochs
    /\ \E speed \in {Rat(1), Rat(2)} :
          fn' = [EpochTime(fn, speed) EXCEPT !.epochs = @ + 1, !.reported = TRUE]
    /\ UNCHANGED modelVars

(* events.rs 69-88: keys 107 (times 1.2) and 109 (divided by 1.2). *)
TimeScale ==
    /\ fn.op = "time"
    /\ fn.presses < TimeMaxPresses
    /\ \E factor \in {<<6, 5>>, <<5, 6>>} :
          fn' = IF fn.params.use_target_speed
                THEN [fn EXCEPT !.params.target_speed = RatMul(@, factor),
                                !.presses = @ + 1]
                ELSE [fn EXCEPT !.params.time_step = RatMul(@, factor),
                                !.presses = @ + 1]
    /\ UNCHANGED modelVars

(* events.rs 145-149: key 84. *)
TimeToggle ==
    /\ fn.op = "time"
    /\ fn.presses < TimeMaxPresses
    /\ fn' = [fn EXCEPT !.params.use_target_speed = ~@, !.presses = @ + 1]
    /\ UNCHANGED modelVars

(* A driver that has reported at the boundary at which it stops, and the   *)
(* next driver, started from the parameter block it left.                  *)
TimeRestart ==
    /\ fn.op = "time"
    /\ fn.reported
    /\ fn' = [TimeStarted(fn.params) EXCEPT !.steps = fn.steps,
                                            !.epochs = fn.epochs,
                                            !.presses = fn.presses]
    /\ UNCHANGED modelVars

SpecTime ==
    InitTime /\ [][TimeStepCounted \/ TimeEpoch \/ TimeScale \/ TimeToggle
                   \/ TimeRestart]_vars

(***************************************************************************)
(* Engine::find_orbital_parent (engine.rs 451-483), in one dimension: the  *)
(* child is given by its place in the list (the source compares            *)
(* addresses, and its callers pass a reference into the list), and the     *)
(* result is the place of the body returned, 0 for None.  G and the masses *)
(* are used exactly here, without the rounding of GravMult.                *)
(***************************************************************************)
allowed_error ==
    RatDiv(Rat(1), Rat(10))

(* child.acceleration.clamp_length(1.0, 1.0) of a non-zero vector: the     *)
(* unit vector of its direction.                                           *)
child_acc_unit(child) ==
    IF child.acceleration[1] > 0 THEN Rat(1) ELSE RatNeg(Rat(1))

Difference(child, other) ==
    RatSub(other.position, child.position)

(* if 1.0 - scalar / difference.length() >= allowed_error { continue } *)
DirectionRejected(child, other) ==
    RatLe(allowed_error,
          RatSub(Rat(1),
                 RatDiv(RatMul(Difference(child, other), child_acc_unit(child)),
                        RatAbs(Difference(child, other)))))

(* A classifier that takes every body in the right direction. *)
MagnitudeNeverRejected(child, other) ==
    FALSE

(* acc_caused_by_other = G * other.mass / difference.length_squared();     *)
(* if 1.0 - acc_caused_by_other / child.acceleration.length() >=           *)
(* allowed_error { continue }                                              *)
MagnitudeRejected(child, other) ==
    RatLe(allowed_error,
          RatSub(Rat(1),
                 RatDiv(RatDiv(Rat(G * other.mass),
                               RatMul(Difference(child, other),
                                      Difference(child, other))),
                        RatAbs(child.acceleration))))

(* for other in objects, from place k on. *)
RECURSIVE ParentFrom(_, _, _)
ParentFrom(child, objs, k) ==
    IF k > Len(objs) THEN 0
    ELSE IF k = child THEN ParentFrom(child, objs, k + 1)
    ELSE IF DirectionRejected(objs[child], objs[k]) THEN ParentFrom(child, objs, k + 1)
    ELSE IF MagnitudeRejected(objs[child], objs[k]) THEN ParentFrom(child, objs, k + 1)
    ELSE k

find_orbital_parent(child, objs) ==
    IF objs[child].acceleration = Zero THEN 0 ELSE ParentFrom(child, objs, 1)

(***************************************************************************)
(* AstronomicalObject::default and place_on_orbit (astronomy.rs 49-341 and *)
(* 356-405).  Lengths are in units of 1000 km and masses in units of       *)
(* 10^22 kg, rounded to whole numbers and at least 1; the two random       *)
(* rotations are taken so that every orbit radius lies along the axis of   *)
(* the model, where the orbital velocity, at right angles to the radius,   *)
(* has component 0.  The acceleration of every body is DVec3::ZERO.        *)
(***************************************************************************)
place_on_orbit(id, mass, radius, orbit_radius, target) ==
    [id |-> id, mass |-> mass, radius |-> Rat(radius),
     position |-> RatAdd(target.position, Rat(orbit_radius)),
     velocity |-> target.velocity,
     acceleration |-> Zero]

(* The list in the order of the pushes: Sun, Mercury, Venus, Earth, Moon,   *)
(* Mars, Jupiter, Saturn, Uranus, Neptune, Phobos, Deimos, Pluto, station. *)
AstronomicalObjectDefault ==
    LET Sun == [id |-> 1, mass |-> 198847000, radius |-> Rat(696),
                position |-> Zero, velocity |-> Zero, acceleration |-> Zero]
        Earth == place_on_orbit(4, 597, 6, 149598, Sun)
        Mars == place_on_orbit(6, 64, 3, 227940, Sun)
    IN  << Sun,
           place_on_orbit(2, 33, 2, 57909, Sun),
           place_on_orbit(3, 487, 6, 108209, Sun),
           Earth,
           place_on_orbit(5, 7, 2, 384, Earth),
           Mars,
           place_on_orbit(7, 189820, 70, 778478, Sun),
           place_on_orbit(8, 56834, 58, 1433538, Sun),
           place_on_orbit(9, 8681, 25, 2870975, Sun),
           place_on_orbit(10, 10241, 25, 4498412, Sun),
           place_on_orbit(11, 1, 1, 9, Mars),
           place_on_orbit(12, 1, 1, 23, Mars),
           place_on_orbit(13, 1, 2, 5906430, Sun),
           place_on_orbit(14, 1, 1, 7, Earth) >>

(***************************************************************************)
(* find_orbital_parent as a function of its arguments: every child of      *)
(* every list of three bodies at distinct places, with the masses and the  *)
(* cached accelerations of the child below, and every child of the default *)
(* scenario.                                                               *)
(***************************************************************************)
ParentMaxMass ==
    2

ParentPositions ==
    {0, 1, 2, 4}

(* 640/9 is the acceleration of which a pull of 64 is exactly 9/10. *)
ParentAccelerations ==
    {Rat(-40), Rat(-8), Zero, Rat(8), Rat(40), RatDiv(Rat(640), Rat(9))}

ParentLists ==
    {[k \in 1..3 |-> Body(k, m[k], 1, x[k], 0)] :
        m \in [1..3 -> 1..ParentMaxMass],
        x \in {y \in [1..3 -> ParentPositions] :
                  y[1] # y[2] /\ y[1] # y[3] /\ y[2] # y[3]}}

ParentInputs ==
    {[op |-> "input", scenario |-> "lists", child |-> c,
      objs |-> [objs EXCEPT ![c].acceleration = a]] :
        objs \in ParentLists, c \in 1..3, a \in ParentAccelerations}
    \cup
    {[op |-> "input", scenario |-> "default", child |-> c,
      objs |-> AstronomicalObjectDefault] : c \in DOMAIN AstronomicalObjectDefault}

InitParent ==
    /\ fn \in ParentInputs
    /\ EngineIdle

ApplyParent ==
    /\ fn.op = "input"
    /\ fn' = [op |-> "find_orbital_parent", scenario |-> fn.scenario,
              child |-> fn.child, objs |-> fn.objs,
              parent |-> find_orbital_parent(fn.child, fn.objs)]
    /\ UNCHANGED modelVars

SpecParent ==
    InitParent /\ [][ApplyParent]_vars

(***************************************************************************)
(* The method-cycle command (events.rs 115-128, key 77) as a function of   *)
(* the method: every method as the starting value, and up to               *)
(* CycleMaxPresses presses of the key.                                     *)
(***************************************************************************)
CycleMaxPresses ==
    20

InitCycle ==
    /\ fn \in [op : {"cycle"}, start : Methods, method : Methods, presses : {0}]
    /\ fn.method = fn.start
    /\ EngineIdle

ApplyCycle ==
    /\ fn.op = "cycle"
    /\ fn.presses < CycleMaxPresses
    /\ fn' = [fn EXCEPT !.method = NextMethod(@), !.presses = @ + 1]
    /\ UNCHANGED modelVars

SpecCycle ==
    InitCycle /\ [][ApplyCycle]_vars

(***************************************************************************)
(* Properties.                                                             *)
(***************************************************************************)
NoOverlap(bodies) ==
    \A p \in AllPairs(Len(bodies)) : ~Overlap(bodies[p[1] + 1], bodies[p[2] + 1])

(* The driver has just counted a step of the epoch (i += 1). *)
StepCounted ==
    dpc = "step" /\ i > 0

(* C1: after each integration step the driver completes and counts, no two *)
(* bodies of the working list are closer than the sum of their radii,      *)
(* whatever the method and the thread count.                               *)
NoOverlapAfterCountedStep ==
    StepCounted => NoOverlap(objects_local)

(* C1 restricted to the methods whose last slot evaluates the forces        *)
(* (Symplectic(1), Symplectic(2), Symplectic(3)).                          *)
NoOverlapAfterKickedStep ==
    (StepCounted /\ UseSymplectic(params_local) /\ params_local.method.k < 4)
        => NoOverlap(objects_local)

(* C2: at most one driver thread is live; a driver is spawned only by a    *)
(* start made with thread_stopped true and at least two bodies, which sets *)
(* thread_stopped to false and is_running to true; while a driver is live  *)
(* nothing sets is_running or spawns.                                      *)
SingleDriver ==
    /\ [](live_drivers <= 1)
    /\ [][live_drivers' > live_drivers
            => /\ thread_stopped
               /\ Len(objects) >= 2
               /\ ~thread_stopped'
               /\ params'.is_running
               /\ live_drivers = 0]_vars
    /\ [][(~params.is_running /\ params'.is_running)
            => live_drivers' > live_drivers]_vars
    /\ [][(thread_stopped /\ ~thread_stopped') => live_drivers' > live_drivers]_vars

(* A driver started again after an earlier driver has integrated and ended. *)
DriverStartedAgain ==
    live_drivers = 1 /\ dpc = "init" /\ steps_total > 0 /\ params.is_running

(* C3, as what a fair scheduler needs to honour a stop: while is_running   *)
(* is false and a started driver thread has not yet set thread_stopped,    *)
(* the driver thread or one of its workers can take a step; were none      *)
(* able to, thread_stopped would stay false for ever.                      *)
StopCanBeHonoured ==
    (~thread_stopped /\ ~params.is_running) => ThreadsCanStep

(* C3 for the runs in which the driver thread has not aborted. *)
StopCanBeHonouredUnlessAborted ==
    (~thread_stopped /\ ~params.is_running /\ dpc # "dead") => ThreadsCanStep

(* C4: in every state where thread_stopped is true, every worker thread    *)
(* that a driver has spawned has terminated.                               *)
WorkersJoinedWhenStopped ==
    thread_stopped => \A w \in DOMAIN wpc : wpc[w] = "done"

(* A driver that had worker threads has declared itself stopped. *)
StoppedAfterWorkers ==
    thread_stopped /\ wpc # <<>> /\ steps_total > 0

(* C5: the working list after each counted step of the parallel path is    *)
(* the list the single-threaded path makes of the same list at the start   *)
(* of the step, with the same method and the same dt.                      *)
ThreadCountIndependence ==
    (StepCounted /\ ~SingleThreaded(params_local))
        => objects_local = StepST(step_start, params_local.method, time_step).bodies

(* C5 for the steps of the parallel path in which no collision is          *)
(* signalled.                                                              *)
ThreadCountIndependenceNoCollision ==
    (StepCounted /\ ~SingleThreaded(params_local) /\ signals = <<>>)
        => objects_local = StepST(step_start, params_local.method, time_step).bodies

(* C6: while a driver is live, the snapshot buffer holds the list the      *)
(* driver was started from or the working list of its last epoch boundary. *)
SnapshotIsPublished ==
    ~thread_stopped => objects = published

(* C6 for the writes of the driver: while a driver is live, a step that    *)
(* is not the add-body command changes the snapshot buffer only to the     *)
(* whole working list.                                                     *)
SnapshotPublishedWhole ==
    [][(~thread_stopped /\ ~thread_stopped' /\ objects' # objects)
          => \/ objects' = objects_local
             \/ objects' = Append(objects, NewObject)]_vars

SliceRange(num_bodies, item) ==
    {p \in AllPairs(num_bodies) : PairLe(item.start, p) /\ PairLe(p, item.end)}

(* C7: for N >= 2 and 1 <= T <= N(N-1)/2, the slices of get_mt_splices(N,  *)
(* T), read as inclusive lexicographic ranges, are pairwise disjoint, cover *)
(* exactly the pairs (i, j), 0 <= i < j < N, and differ in size by at most *)
(* one.                                                                    *)
SplicesPartition ==
    (/\ fn.op = "get_mt_splices"
     /\ fn.num_bodies >= 2
     /\ fn.num_threads <= Cardinality(AllPairs(fn.num_bodies)))
        => /\ \A a, b \in DOMAIN fn.slices :
                a # b => SliceRange(fn.num_bodies, fn.slices[a])
                         \cap SliceRange(fn.num_bodies, fn.slices[b]) = {}
           /\ UNION {SliceRange(fn.num_bodies, fn.slices[a]) : a \in DOMAIN fn.slices}
                = AllPairs(fn.num_bodies)
           /\ \A a, b \in DOMAIN fn.slices :
                Cardinality(SliceRange(fn.num_bodies, fn.slices[a]))
                <= Cardinality(SliceRange(fn.num_bodies, fn.slices[b])) + 1

(* Six pairs in four slices, of sizes 2, 2, 1, 1. *)
SplicesUneven ==
    /\ fn.op = "get_mt_splices"
    /\ fn.num_bodies = 4
    /\ fn.num_threads = 4
    /\ Len(fn.slices) = 4
    /\ Cardinality(SliceRange(4, fn.slices[1])) = 2
    /\ Cardinality(SliceRange(4, fn.slices[4])) = 1

(* C8 as stated: at every collision signal of a step the working list is   *)
(* the list at the start of that step.                                     *)
SignalBeforeAnyWrite ==
    \A k \in DOMAIN signals : signals[k].bodies = step_start

(* C8: when runge_kutta_4 signals a collision the working list is the list *)
(* at the start of the step; when the force evaluation of the first slot   *)
(* of a symplectic step signals first, the list is the list at the start   *)
(* of the step with the drift of that slot applied to the positions, and   *)
(* velocity and acceleration are those of the start of the step.           *)
SignalAfterDriftOnly ==
    signals # <<>>
        => IF UseSymplectic(params_local)
           THEN signals[1].slot = 1
                    => signals[1].bodies
                       = Drift(step_start, time_step,
                               get_coefficients(params_local.method)[1][1])
           ELSE \A k \in DOMAIN signals : signals[k].bodies = step_start

(* A collision signalled in a symplectic step after the drift has moved a  *)
(* body, and one signalled by runge_kutta_4.                               *)
SignalAfterMove ==
    /\ signals # <<>>
    /\ UseSymplectic(params_local)
    /\ signals[1].slot = 1
    /\ signals[1].bodies # step_start

(* C9: the surviving body's mass times its velocity after collide_objects  *)
(* is m_h * v_h + m_l * v_l of the two bodies before it.                   *)
Momentum(body) ==
    RatMul(Rat(body.mass), body.velocity)

Survivor(before, pair, after) ==
    CHOOSE k \in DOMAIN after :
        after[k].id \in {before[pair[1] + 1].id, before[pair[2] + 1].id}

CollideMomentum ==
    fn.op = "collide_objects"
        => Momentum(fn.after[Survivor(fn.before, fn.pair, fn.after)])
           = RatAdd(Momentum(fn.before[fn.pair[1] + 1]),
                    Momentum(fn.before[fn.pair[2] + 1]))

(* A merge of a moving light body into a moving heavier one. *)
CollideMoving ==
    /\ fn.op = "collide_objects"
    /\ Len(fn.after) = 2
    /\ fn.before[fn.pair[1] + 1].mass < fn.before[fn.pair[2] + 1].mass
    /\ fn.before[fn.pair[1] + 1].velocity = Rat(1)
    /\ fn.before[fn.pair[2] + 1].velocity = Rat(-1)
    /\ fn.after[Survivor(fn.before, fn.pair, fn.after)].velocity[2] > 1

RECURSIVE MassSum(_)
MassSum(bodies) ==
    IF bodies = <<>> THEN 0 ELSE bodies[1].mass + MassSum(Tail(bodies))

(* C10: no step of a driver thread, with any method and thread count,      *)
(* changes the sum of the masses of the working list.                      *)
MassSumConstant ==
    [][(dpc # "none" /\ dpc' # "none")
          => MassSum(objects_local') = MassSum(objects_local)]_vars

(* The driver has merged two bodies since the list was last published. *)
MergedSincePublished ==
    /\ dpc \notin {"none", "dead"}
    /\ signals # <<>>
    /\ Len(objects_local) < Len(published)
    /\ MassSum(objects_local) = MassSum(published)

(* C11: collide_objects on (p, q) shortens the list by exactly one body,   *)
(* the lighter of the two and on equal masses the second index q; the      *)
(* heavier keeps its id and its place, and every body outside the pair     *)
(* keeps its state and its order relative to the others.                   *)
CollideRemovesLighter ==
    fn.op = "collide_objects"
        => LET b == fn.before
               a == fn.after
               p == fn.pair[1] + 1
               q == fn.pair[2] + 1
               l == IF b[p].mass < b[q].mass THEN p ELSE q
               h == IF l = p THEN q ELSE p
           IN  /\ Len(a) = Len(b) - 1
               /\ \A k \in DOMAIN a : a[k].id # b[l].id
               /\ \A k \in DOMAIN b :
                     k # l => LET at == IF k < l THEN k ELSE k - 1
                              IN  /\ a[at].id = b[k].id
                                  /\ k # h => a[at] = b[k]

(* Two bodies of equal mass merged with the pair given as (2, 0): the      *)
(* second index, the head of the list, is the one removed.                 *)
CollideTie ==
    /\ fn.op = "collide_objects"
    /\ fn.pair = <<2, 0>>
    /\ fn.before[3].mass = fn.before[1].mass
    /\ Len(fn.after) = 2
    /\ fn.after[1] = fn.before[2]
    /\ fn.after[2].id = fn.before[3].id

(* C12: after collide_objects the survivor's radius r_new satisfies        *)
(* r_new^3 * m_h = r_h^3 * (m_h + m_l), m_h the heavy body's mass before   *)
(* the merge.                                                              *)
Cube(r) ==
    RatMul(r, RatMul(r, r))

HeavyBefore(before, pair) ==
    IF HeavyFirst(before, pair[1] + 1, pair[2] + 1)
    THEN before[pair[1] + 1] ELSE before[pair[2] + 1]

LightBefore(before, pair) ==
    IF HeavyFirst(before, pair[1] + 1, pair[2] + 1)
    THEN before[pair[2] + 1] ELSE before[pair[1] + 1]

CollideRadiusScaled ==
    fn.op = "collide_objects"
        => RatMul(Cube(fn.after[Survivor(fn.before, fn.pair, fn.after)].radius),
                  Rat(HeavyBefore(fn.before, fn.pair).mass))
           = RatMul(Cube(HeavyBefore(fn.before, fn.pair).radius),
                    Rat(HeavyBefore(fn.before, fn.pair).mass
                        + LightBefore(fn.before, fn.pair).mass))

(* What the code does: the mass is incremented before the ratio is taken,  *)
(* so the ratio is 1 and the survivor's radius is the heavy body's radius. *)
CollideRadiusKept ==
    fn.op = "collide_objects"
        => fn.after[Survivor(fn.before, fn.pair, fn.after)].radius
           = HeavyBefore(fn.before, fn.pair).radius

(* C13: no step of a driver thread with a symplectic method, whatever the  *)
(* thread count, changes the sum of mass * velocity over the working list  *)
(* (drifts, kicks and merges, in exact arithmetic).                        *)
RECURSIVE TotalMomentum(_)
TotalMomentum(bodies) ==
    IF bodies = <<>> THEN Zero
    ELSE RatAdd(Momentum(bodies[1]), TotalMomentum(Tail(bodies)))

MomentumStep ==
    TotalMomentum(objects_local') = TotalMomentum(objects_local)

MomentumConstant ==
    [][(dpc # "none" /\ dpc' # "none" /\ UseSymplectic(params_local))
          => MomentumStep]_vars

(* The same with one thread: every drift, kick and merge of the            *)
(* single-threaded symplectic loop keeps the sum.                          *)
MomentumConstantSingleThreaded ==
    [][(dpc # "none" /\ dpc' # "none" /\ UseSymplectic(params_local)
        /\ params_local.num_threads = 1)
          => MomentumStep]_vars

(* C14: once a merge has left the driver fewer than two bodies, is_running *)
(* is false and stays false, no thread evaluates forces on the list or     *)
(* changes it, the driver publishes that list, goes to the epoch boundary, *)
(* joins its workers and ends with thread_stopped true; it never returns   *)
(* to a step, and at each point of the way some thread can move.           *)
Aborting ==
    dpc \notin {"none", "dead"} /\ Len(objects_local) < 2

AbortedRunStops ==
    /\ [](Aborting => /\ ~params.is_running
                      /\ dpc \in {"publish", "epoch", "join"}
                      /\ ThreadsCanStep)
    /\ [][Aborting =>
            /\ steps_total' = steps_total
            /\ dpc' # "none" => /\ objects_local' = objects_local
                                /\ thread_results' = thread_results
            /\ dpc = "publish" => \/ dpc' = "publish"
                                  \/ dpc' = "epoch" /\ objects' = objects_local
            /\ dpc = "epoch" => dpc' \in {"epoch", "join", "none"}
            /\ dpc = "join" => dpc' \in {"join", "none"}
            /\ dpc' = "none" => /\ thread_stopped'
                                /\ HandlesJoined'
                                /\ live_drivers' = 0]_vars

(* A parallel run that merged its last two bodies has ended: one body is   *)
(* published, the workers are joined and thread_stopped is true.           *)
AbortedRunStopped ==
    /\ dpc = "none"
    /\ thread_stopped
    /\ Len(objects) = 1
    /\ Len(published) = 1
    /\ published[1].mass > 1
    /\ wpc # <<>>
    /\ HandlesJoined

(* C15: with fewer than two bodies in the list and no driver, no step,     *)
(* and so no start, makes a driver, clears thread_stopped or sets          *)
(* is_running, and a start step changes no variable at all; a stop leaves  *)
(* is_running false and changes nothing else, so a stop after a stop       *)
(* changes nothing.                                                        *)
TooFewToStart ==
    thread_stopped /\ dpc = "none" /\ Len(objects) < 2

StartIsNoOpBelowTwo ==
    [][TooFewToStart => /\ thread_stopped'
                        /\ dpc' = "none"
                        /\ live_drivers' = live_drivers
                        /\ params'.is_running = params.is_running
                        /\ Start => UNCHANGED vars]_vars

StopIsIdempotent ==
    [][Stop => /\ ~params'.is_running
               /\ params' = [params EXCEPT !.is_running = FALSE]
               /\ UNCHANGED <<objects, thread_stopped, dpc, live_drivers,
                              objects_local, published>>
               /\ ~params.is_running => UNCHANGED vars]_vars

StartNoOpStopIdempotent ==
    StartIsNoOpBelowTwo /\ StopIsIdempotent

(* A single-threaded run has merged its last two bodies and ended: one     *)
(* body is left, the engine is stopped, and a start finds its guard false. *)
OneBodyLeftStopped ==
    /\ TooFewToStart
    /\ ~StartGuard
    /\ ~params.is_running
    /\ Len(objects) = 1
    /\ objects[1].mass > 1
    /\ wpc = <<>>

(* C16: when the driver sees at an epoch boundary, with is_running true,   *)
(* that the commanded method or thread count differs from the one it runs  *)
(* with, it raises the kill flag and joins every worker it has, then       *)
(* adopts the commanded configuration: result slots and worker threads for *)
(* the new thread count, a work queue that covers the pairs of the current *)
(* body count; the working list, dt, the count of steps and thread_stopped *)
(* = false are as before, and the same driver goes on to its next step.    *)
ConfigChanged ==
    \/ params_local.num_threads # params.num_threads
    \/ params_local.method # params.method

Rebuilt ==
    /\ dpc' = "step"
    /\ params_local' = params
    /\ params' = params
    /\ objects_local' = objects_local
    /\ time_step' = time_step
    /\ steps_total' = steps_total
    /\ ~thread_stopped'
    /\ live_drivers' = live_drivers
    /\ Len(thread_results') = params.num_threads
    /\ wpc' = IF UseSymplectic(params) /\ params.num_threads > 1
              THEN [w \in 1..params.num_threads |-> "atA"]
              ELSE <<>>
    /\ ~worker_kill'
    /\ UNION {SliceRange(Len(objects_local), work_queue'[a]) : a \in DOMAIN work_queue'}
         = AllPairs(Len(objects_local))

AtBoundary ==
    dpc \in {"init", "epoch", "join"}

OwnStepST ==
    IF UseSymplectic(params_local)
    THEN StepST(objects_local, params_local.method, time_step)
    ELSE StepRK4(objects_local, time_step)

OwnStepMT ==
    AdvanceMT(objects_local, get_coefficients(params_local.method), 1, time_step)

EpochConfigurationFixed ==
    [][/\ ~AtBoundary => /\ params_local' = params_local
                         /\ time_step' = time_step
                         /\ Len(thread_results') = Len(thread_results)
                         /\ DOMAIN wpc' = DOMAIN wpc
       /\ (dpc = "step" /\ SingleThreaded(params_local)
           /\ (i' = i + 1 \/ dpc' = "publish"))
             => objects_local' = OwnStepST.bodies
       /\ (dpc = "step" /\ ~SingleThreaded(params_local) /\ dpc' = "kick")
             => /\ objects_local' = OwnStepMT.bodies
                /\ slot' = OwnStepMT.slot]_vars

(* The driver is inside the second step of an epoch, with the workers of   *)
(* its own configuration, while another method and another thread count    *)
(* are commanded.                                                          *)
WrittenDuringEpoch ==
    /\ dpc = "gather"
    /\ i = 1
    /\ params.is_running
    /\ params.method # params_local.method
    /\ params.num_threads # params_local.num_threads
    /\ Len(thread_results) = params_local.num_threads
    /\ DOMAIN wpc = 1..params_local.num_threads

(* C18 as stated: for N >= 2 the slices of get_mt_splices(N, T), read in   *)
(* slice-index order, are consecutive blocks of the lexicographic list of  *)
(* the pairs (i, j), i < j: slice 0 starts at (0, 1), each later slice     *)
(* starts at the pair after the end of the one before, and the last ends   *)
(* at (N-2, N-1); for N = 6 and T = 3 the three slices have five pairs     *)
(* each.                                                                   *)
NextPair(num_bodies, p) ==
    IF p[2] + 1 < num_bodies THEN <<p[1], p[2] + 1>> ELSE <<p[1] + 1, p[1] + 2>>

SixBodiesThreeThreads ==
    (fn.num_bodies = 6 /\ fn.num_threads = 3)
        => /\ Len(fn.slices) = 3
           /\ \A a \in 1..3 : Cardinality(SliceRange(6, fn.slices[a])) = 5

SplicesInWorkerOrder ==
    (fn.op = "get_mt_splices" /\ fn.num_bodies >= 2)
        => /\ fn.slices[1].start = <<0, 1>>
           /\ \A a \in 1..(Len(fn.slices) - 1) :
                fn.slices[a + 1].start = NextPair(fn.num_bodies, fn.slices[a].end)
           /\ fn.slices[Len(fn.slices)].end = <<fn.num_bodies - 2, fn.num_bodies - 1>>
           /\ SixBodiesThreeThreads

(* C18 as the code has it: split_off takes each bucket from the end of the *)
(* list, so the slices are consecutive blocks of the lexicographic list    *)
(* when read from the last slice down to slice 0; for N = 6 and T = 3 the  *)
(* three slices have five pairs each.                                      *)
SplicesInReverseWorkerOrder ==
    (fn.op = "get_mt_splices" /\ fn.num_bodies >= 2)
        => /\ fn.slices[Len(fn.slices)].start = <<0, 1>>
           /\ \A a \in 1..(Len(fn.slices) - 1) :
                fn.slices[a].start = NextPair(fn.num_bodies, fn.slices[a + 1].end)
           /\ fn.slices[1].end = <<fn.num_bodies - 2, fn.num_bodies - 1>>
           /\ SixBodiesThreeThreads

(* Fifteen pairs in three slices: slice 0 is (2,4)..(4,5), slice 1 is      *)
(* (1,2)..(2,3) and slice 2 is (0,1)..(0,5).                               *)
SplicesLastBlockFirst ==
    /\ fn.op = "get_mt_splices"
    /\ fn.num_bodies = 6
    /\ fn.num_threads = 3
    /\ fn.slices[1] = [start |-> <<2, 4>>, end |-> <<4, 5>>]
    /\ fn.slices[2] = [start |-> <<1, 2>>, end |-> <<2, 3>>]
    /\ fn.slices[3] = [start |-> <<0, 1>>, end |-> <<0, 5>>]

(* C19: find_orbital_parent returns the first body of the list, other than *)
(* the child, with 1 - (D.a_unit)/|D| < 1/10 and                           *)
(* 1 - (G*m_B/|D|^2)/|a_c| < 1/10; it returns none when no body passes     *)
(* both tests and whenever the child's cached acceleration is zero, and    *)
(* never the child.                                                        *)
RatLt(a, b) ==
    a[1] * b[2] < b[1] * a[2]

PassesDirection(c, b) ==
    RatLt(RatSub(Rat(1), RatDiv(RatMul(RatSub(b.position, c.position),
                                       RatDiv(c.acceleration, RatAbs(c.acceleration))),
                                RatAbs(RatSub(b.position, c.position)))),
          RatDiv(Rat(1), Rat(10)))

PassesMagnitude(c, b) ==
    RatLt(RatSub(Rat(1),
                 RatDiv(RatDiv(Rat(G * b.mass),
                               RatMul(RatSub(b.position, c.position),
                                      RatSub(b.position, c.position))),
                        RatAbs(c.acceleration))),
          RatDiv(Rat(1), Rat(10)))

Passing(child, objs) ==
    IF objs[child].acceleration = Zero
    THEN {}
    ELSE {k \in DOMAIN objs \ {child} :
            PassesDirection(objs[child], objs[k]) /\ PassesMagnitude(objs[child], objs[k])}

ParentIsFirstPassing ==
    fn.op = "find_orbital_parent"
        => /\ fn.parent # fn.child
           /\ IF Passing(fn.child, fn.objs) = {}
              THEN fn.parent = 0
              ELSE /\ fn.parent \in Passing(fn.child, fn.objs)
                   /\ \A k \in Passing(fn.child, fn.objs) : fn.parent <= k

(* The child is the head of the list and both other bodies pass the two    *)
(* tests: the one returned is the second body of the list, not the third.  *)
ParentFirstOfTwo ==
    /\ fn.op = "find_orbital_parent"
    /\ fn.scenario = "lists"
    /\ fn.child = 1
    /\ Passing(1, fn.objs) = {2, 3}
    /\ fn.parent = 2

(* C20: in the default scenario as the scenario factory makes it, before   *)
(* any integration step, find_orbital_parent returns the Sun for each      *)
(* planet and Pluto, Earth for the Moon and the station, Mars for Phobos   *)
(* and Deimos, and none for the Sun.                                       *)
ExpectedParent(child) ==
    LET sun == 1
        earth == 4
        moon == 5
        mars == 6
        phobos == 11
        deimos == 12
        station == 14
    IN  CASE child = sun -> 0
          [] child \in {moon, station} -> earth
          [] child \in {phobos, deimos} -> mars
          [] OTHER -> sun

DefaultParents ==
    (fn.op = "find_orbital_parent" /\ fn.scenario = "default")
        => fn.parent = ExpectedParent(fn.child)

(* What the code does: every body of the default scenario has the cached   *)
(* acceleration DVec3::ZERO until the first force evaluation, so the       *)
(* classifier returns none for every child.                                *)
DefaultParentsNoneAtStart ==
    (fn.op = "find_orbital_parent" /\ fn.scenario = "default")
        => fn.parent = 0

(* C21: the method-cycle command goes Symplectic(1), Symplectic(2),        *)
(* Symplectic(3), Symplectic(4), RK4 and back to Symplectic(1): after any  *)
(* number of presses the method is one of these five, it is the starting   *)
(* value after five presses (and after every multiple of five), and it is  *)
(* another value in between.                                               *)
MethodCycleOfFive ==
    fn.op = "cycle"
        => /\ fn.method \in {[tag |-> "Symplectic", k |-> 1], [tag |-> "Symplectic", k |-> 2],
                              [tag |-> "Symplectic", k |-> 3], [tag |-> "Symplectic", k |-> 4],
                              [tag |-> "RK4", k |-> 0]}
           /\ (fn.presses % 5 = 0) <=> (fn.method = fn.start)

(* Five presses from Symplectic(3): through Symplectic(4), RK4,            *)
(* Symplectic(1) and Symplectic(2) back to Symplectic(3).                  *)
CycledBackToStart ==
    /\ fn.op = "cycle"
    /\ fn.presses = 5
    /\ fn.start = [tag |-> "Symplectic", k |-> 3]
    /\ fn.method = fn.start

(* C22: the driver thread never aborts on an index out of range, and       *)
(* whenever it is about to merge the pair of a collision marker of the     *)
(* parallel path, the two indices are distinct, inside the working list,   *)
(* and the two bodies overlap in that list.                                *)
MarkedPair ==
    thread_results[FirstErr(thread_results)].pair

MergesLegitimate ==
    /\ dpc # "dead"
    /\ (dpc = "gather" /\ FirstErr(thread_results) # 0)
          => /\ MarkedPair[1] # MarkedPair[2]
             /\ MarkedPair[1] < Len(objects_local)
             /\ MarkedPair[2] < Len(objects_local)
             /\ Overlap(objects_local[MarkedPair[1] + 1],
                        objects_local[MarkedPair[2] + 1])

(* C23: when the driver gathers the results of a barrier round, the slot   *)
(* of each worker that has a slice holds what symplectic_mt makes of the   *)
(* current working list and that slice, every other slot holds the initial *)
(* empty vector, and in a round without a collision marker the sum of the  *)
(* slots is the full pairwise acceleration of the working list.            *)
SlotFresh(w) ==
    IF w <= Len(work_queue)
    THEN thread_results[w]
         = symplectic_mt(objects_local, work_queue[w].start, work_queue[w].end)
    ELSE thread_results[w] = Ok(<<>>)

ResultsFresh ==
    dpc = "gather"
        => /\ \A w \in DOMAIN thread_results : SlotFresh(w)
           /\ FirstErr(thread_results) = 0
                 => /\ symplectic(objects_local).ok
                    /\ SumResults(thread_results, 1, ZeroVec(Len(objects_local)))
                        = symplectic(objects_local).vec

(* C23 for the rounds in which every worker has a slice. *)
ResultsFreshWhenAllHaveSlices ==
    (dpc = "gather" /\ Len(work_queue) = Len(thread_results))
        => /\ \A w \in DOMAIN thread_results : SlotFresh(w)
           /\ FirstErr(thread_results) = 0
                 => /\ symplectic(objects_local).ok
                    /\ SumResults(thread_results, 1, ZeroVec(Len(objects_local)))
                        = symplectic(objects_local).vec

(* C24: when a worker with a slice has reported a collision in the round   *)
(* the driver gathers, the driver's step merges the pair of the lowest     *)
(* such worker and nothing else: one body fewer, no velocity kicked, the   *)
(* slot and the step counters as before; then either the list is spent, or *)
(* the work queue covers the pairs of the new body count and the driver    *)
(* goes back to the barrier of the same slot.                              *)
ReportedThisRound ==
    {w \in 1..Len(work_queue) : ~thread_results[w].ok}

LowestReported ==
    CHOOSE w \in ReportedThisRound : \A v \in ReportedThisRound : w <= v

OneMergePerRound ==
    [][(dpc = "gather" /\ dpc' # "gather" /\ ReportedThisRound # {}) =>
          /\ objects_local'
               = collide_objects(objects_local, thread_results[LowestReported].pair)
          /\ Len(objects_local') = Len(objects_local) - 1
          /\ slot' = slot
          /\ i' = i
          /\ steps_total' = steps_total
          /\ thread_results' = thread_results
          /\ IF Len(objects_local') < 2
             THEN dpc' = "publish" /\ ~params'.is_running
             ELSE /\ dpc' = "kick"
                  /\ UNION {SliceRange(Len(objects_local'), work_queue'[a]) :
                               a \in DOMAIN work_queue'}
                       = AllPairs(Len(objects_local'))]_vars

(* Two workers reported a collision in one round, the driver has merged    *)
(* one pair of three bodies and is back at the barrier of the same slot.   *)
MergedOneOfTwoReported ==
    /\ dpc = "kick"
    /\ Len(signals) = 1
    /\ Len(step_start) = 3
    /\ Len(objects_local) = 2
    /\ Cardinality({w \in DOMAIN thread_results : ~thread_results[w].ok}) = 2


(* A thread of the barrier's parties is blocked in wait(). *)
BlockedInWait ==
    \/ dpc \in {"atA", "atB", "atKill"}
    \/ \E w \in DOMAIN wpc : wpc[w] \in {"atA", "atB"}

(* C25: the threads never deadlock: in every reachable state in which a    *)
(* thread is blocked in a barrier wait, the driver thread or one of the    *)
(* workers of the barrier can take a step, so that the missing party can   *)
(* still arrive; were none able to, the blocked thread would wait for      *)
(* ever.                                                                   *)
NoThreadBlockedForEver ==
    BlockedInWait
        => \/ dpc \in {"init", "step", "kick", "gather", "publish", "epoch"}
           \/ dpc = "join" /\ HandlesJoined
           \/ \E w \in DOMAIN wpc : wpc[w] = "run"

(* C25 for the runs in which no stale collision marker has aborted the     *)
(* driver thread (C22): retries after a merge, workers without a slice,    *)
(* reconfiguration and kill included.                                      *)
NoThreadBlockedUnlessAborted ==
    (BlockedInWait /\ dpc # "dead")
        => \/ dpc \in {"init", "step", "kick", "gather", "publish", "epoch"}
           \/ dpc = "join" /\ HandlesJoined
           \/ \E w \in DOMAIN wpc : wpc[w] = "run"


(* The driver's single-threaded symplectic step: the source's one pass of  *)
(* the while loop of line 105, ended by i += 1 or by the break of line 138. *)
SymplecticStepST ==
    /\ dpc = "step"
    /\ SingleThreaded(params_local)
    /\ UseSymplectic(params_local)
    /\ (i' = i + 1 \/ dpc' = "publish")

(* The driver of the parallel path leaves the gathering of a round. *)
GatherDone ==
    dpc = "gather" /\ dpc' # "gather" /\ dpc' # "dead"

(* velocity += dt * d * acceleration, once, with the acceleration cached. *)
KickedOnce(before, after, dt, d) ==
    /\ Len(after) = Len(before)
    /\ \A k \in DOMAIN after :
          after[k].velocity
          = RatAdd(before[k].velocity, RatMul(RatMul(dt, d), after[k].acceleration))

(* C26 as stated, the retry starting the slot again, drift included: the   *)
(* list the parallel path evaluates after a merge in slot (c, d) is the    *)
(* merged list drifted by c * dt, and the list a single-threaded step that *)
(* merged once in its last slot ends with is the kick of that list.        *)
SlotRetriedFromItsDrift ==
    /\ [][(GatherDone /\ dpc' = "kick" /\ FirstErr(thread_results) # 0)
            => objects_local'
               = Drift(collide_objects(objects_local, MarkedPair), time_step,
                       get_coefficients(params_local.method)[slot][1])]_vars
    /\ [][(SymplecticStepST /\ dpc' = "step" /\ Len(signals') = 1
           /\ signals'[1].slot = Len(get_coefficients(params_local.method)))
            => LET table == get_coefficients(params_local.method)
                   last == signals'[1]
                   again == Drift(collide_objects(last.bodies,
                                                  symplectic(last.bodies).pair),
                                  time_step, table[last.slot][1])
               IN  objects_local'
                   = Kick(again, time_step, table[last.slot][2],
                          symplectic(again).vec)]_vars

(* C26: in a symplectic step, a collision detected by the force evaluation *)
(* of slot (c, d) is resolved by a merge and the force evaluation of that  *)
(* slot is repeated on the merged list, the drift of the slot not being    *)
(* repeated; the kick of the slot is applied once, after an evaluation     *)
(* that found no collision, and no later slot runs before it: the slots of *)
(* the signals never go back, the slot in progress changes only with the   *)
(* kick, and the list is untouched while a round is evaluated.             *)
SlotRetriedFromItsEvaluation ==
    /\ [][SymplecticStepST
            => LET table == get_coefficients(params_local.method)
                   sig == signals'
                   merged(k) == collide_objects(sig[k].bodies,
                                                symplectic(sig[k].bodies).pair)
               IN  /\ \A k \in DOMAIN sig : ~symplectic(sig[k].bodies).ok
                   /\ \A k \in 1..(Len(sig) - 1) :
                         /\ sig[k].slot <= sig[k + 1].slot
                         /\ sig[k + 1].slot = sig[k].slot
                               => sig[k + 1].bodies = merged(k)
                   /\ (dpc' = "step" /\ sig # <<>>
                       /\ sig[Len(sig)].slot = Len(table))
                         => /\ symplectic(merged(Len(sig))).ok
                            /\ objects_local'
                               = Kick(merged(Len(sig)), time_step,
                                      table[Len(table)][2],
                                      symplectic(merged(Len(sig))).vec)]_vars
    /\ [][GatherDone
            => IF FirstErr(thread_results) # 0
               THEN /\ objects_local' = collide_objects(objects_local, MarkedPair)
                    /\ slot' = slot
                    /\ i' = i
               ELSE /\ symplectic(objects_local).ok
                    /\ KickedOnce(objects_local, objects_local', time_step,
                                  get_coefficients(params_local.method)[slot][2])
                    /\ (slot' > slot \/ (slot' = 0 /\ i' = i + 1))]_vars
    /\ [][(dpc \in {"kick", "atA", "atB"})
            => (objects_local' = objects_local /\ slot' = slot /\ i' = i)]_vars

(* A step that merged once has kicked the merged list and is counted, on   *)
(* either path.                                                            *)
KickedAfterRetry ==
    /\ StepCounted
    /\ UseSymplectic(params_local)
    /\ Len(signals) = 1
    /\ Len(objects_local) = 2
    /\ objects_local[1].acceleration # Zero


(* What the gathering of a round may do to the retry loop of a kick: retry *)
(* after a merge that took one body and left two or more, apply the kick,  *)
(* or leave the step with fewer than two bodies.                           *)
RetriedAfterMerge ==
    /\ dpc' = "kick"
    /\ FirstErr(thread_results) # 0
    /\ slot' = slot
    /\ Len(objects_local') = Len(objects_local) - 1
    /\ Len(objects_local') >= 2

KickApplied ==
    /\ dpc' \in {"kick", "step"}
    /\ FirstErr(thread_results) = 0
    /\ Len(objects_local') = Len(objects_local)

LeftWithFewerThanTwo ==
    /\ dpc' = "publish"
    /\ Len(objects_local') = Len(objects_local) - 1
    /\ Len(objects_local') < 2
    /\ ~params'.is_running

(* The merges of the step in progress each took one body from the list the *)
(* step began with.                                                        *)
MergesCounted ==
    signals # <<>>
        => /\ Len(objects_local) = Len(step_start) - Len(signals)
           /\ Len(signals) <= Len(step_start) - 1

(* The signals of a single-threaded step: each retry follows a merge that  *)
(* took one body, and the step ends kicked or with fewer than two bodies.  *)
RetriesCountedST ==
    /\ \A k \in 1..(Len(signals') - 1) :
          Len(signals'[k + 1].bodies) = Len(signals'[k].bodies) - 1
    /\ Len(signals') <= Len(objects_local) - 1
    /\ Len(objects_local') = Len(objects_local) - Len(signals')
    /\ dpc' = "publish" <=> Len(objects_local') < 2

(* C27: the retry loop of a kick ends: each retry follows a merge that     *)
(* takes one body from the list, a kick on N bodies makes at most N - 1    *)
(* merges, and the loop ends by applying the kick or by leaving the step   *)
(* with fewer than two bodies, on the single-threaded path and on the      *)
(* parallel path.                                                          *)
KickLoopEnds ==
    /\ []MergesCounted
    /\ [][SymplecticStepST => RetriesCountedST]_vars
    /\ [][(dpc = "gather" /\ dpc' # "gather")
            => (RetriedAfterMerge \/ KickApplied \/ LeftWithFewerThanTwo)]_vars

(* C27 for the rounds in which the driver thread is not aborted by a stale *)
(* collision marker (C22).                                                 *)
KickLoopEndsUnlessAborted ==
    /\ []MergesCounted
    /\ [][SymplecticStepST => RetriesCountedST]_vars
    /\ [][(dpc = "gather" /\ dpc' \notin {"gather", "dead"})
            => (RetriedAfterMerge \/ KickApplied \/ LeftWithFewerThanTwo)]_vars


(* The list after is the list before advanced by one collision-free        *)
(* runge_kutta_4 step of the driver's dt.                                  *)
AdvancedRK4(before, after) ==
    /\ ~runge_kutta_4(before, time_step).hit
    /\ after = runge_kutta_4(before, time_step).bodies

(* The list a counted RK4 iteration had to advance: the working list, or   *)
(* what the merge of the signalled pair made of it.                        *)
AfterMerges(bodies) ==
    IF runge_kutta_4(bodies, time_step).hit
    THEN collide_objects(bodies, runge_kutta_4(bodies, time_step).collision)
    ELSE bodies

(* A counted symplectic step whose last slot kicks (k < 4) ends on a list  *)
(* whose force evaluation finds no collision, and on the single-threaded   *)
(* path with that evaluation cached as the acceleration of every body.     *)
AdvancedSymplectic(after) ==
    params_local.method.k < 4
        => /\ symplectic(after).ok
           /\ SingleThreaded(params_local)
                 => \A k \in DOMAIN after :
                       after[k].acceleration = symplectic(after).vec[k]

(* C28: every increment of the step counter of the epoch comes with one    *)
(* increment of the count of steps and with one successful advancement of  *)
(* the list by dt: a counted RK4 iteration ends on the list runge_kutta_4  *)
(* makes, without collision, of the working list or of its merge, and a    *)
(* counted symplectic step on a kicked list; an attempt that ends in a     *)
(* collision is not counted.                                               *)
StepAccountingExact ==
    [][i' = i + 1
         => /\ steps_total' = steps_total + 1
            /\ Len(objects_local') >= 2
            /\ IF UseSymplectic(params_local)
               THEN AdvancedSymplectic(objects_local')
               ELSE AdvancedRK4(AfterMerges(objects_local), objects_local')]_vars

(* C28 for the symplectic methods, and for the RK4 iterations in which     *)
(* runge_kutta_4 signals no collision.                                     *)
StepAccountingExactWithoutSignalRK4 ==
    [][i' = i + 1
         => /\ steps_total' = steps_total + 1
            /\ Len(objects_local') >= 2
            /\ IF UseSymplectic(params_local)
               THEN AdvancedSymplectic(objects_local')
               ELSE signals' = <<>>
                       => AdvancedRK4(objects_local, objects_local')]_vars


Ids(bodies) ==
    {bodies[k].id : k \in DOMAIN bodies}

(* The bodies of the snapshot buffer that no driver has had in its list:   *)
(* those appended by the add-body command since the list was started from  *)
(* or last published.                                                      *)
Appended ==
    {k \in DOMAIN objects : objects[k].id \notin Ids(published)}

(* C29: a body appended by the add-body command is never lost: no step,    *)
(* of the consumer or of a driver that has yet to observe the stop, takes  *)
(* an appended body out of the body list, so that it is in the list when   *)
(* the driver has stopped and in the list the next start copies.           *)
AppendedBodyKept ==
    [][\A k \in Appended : objects[k].id \in Ids(objects')]_vars

(* C29 for the bodies appended while no driver thread is live. *)
AppendedBodyKeptWhenStopped ==
    [][thread_stopped => \A k \in Appended : objects[k].id \in Ids(objects')]_vars


(* A worker is between its release from the first wait and its arrival at  *)
(* the second: it holds its read guards and evaluates its slice.           *)
Evaluating ==
    \E w \in DOMAIN wpc : wpc[w] = "run" /\ ~worker_kill

(* C30: a worker evaluates forces only between the release of the first    *)
(* wait and the release of the second of a round, while the driver is      *)
(* blocked in its second wait; in no step taken while a worker evaluates   *)
(* does the working list (drift, kick, merge) or the work queue change.    *)
ListWrittenOutsideRounds ==
    /\ [](Evaluating => dpc = "atB")
    /\ [][Evaluating
            => (objects_local' = objects_local /\ work_queue' = work_queue)]_vars

(* A worker evaluates its slice of the list of a retry round while another *)
(* has arrived at the second wait.                                         *)
EvaluatingInRetryRound ==
    /\ signals # <<>>
    /\ dpc = "atB"
    /\ \E w \in DOMAIN wpc :
          wpc[w] = "run" /\ ~worker_kill /\ w <= Len(work_queue)
    /\ \E w \in DOMAIN wpc : wpc[w] = "atB"


(* The pairs of a list that overlap where the bodies are. *)
Overlapping(bodies) ==
    {p \in AllPairs(Len(bodies)) : Overlap(bodies[p[1] + 1], bodies[p[2] + 1])}

FirstPair(pairs) ==
    CHOOSE p \in pairs : \A q \in pairs : PairLe(p, q)

(* The bodies of a pair overlap at the positions of stage 1 (half a step   *)
(* along their velocities).                                                *)
OverlapHalfWay(a, b, dt) ==
    RatLe(RatAbs(RatSub(RatAdd(b.position, RatMul(b.velocity, RatMul(<<1, 2>>, dt))),
                        RatAdd(a.position, RatMul(a.velocity, RatMul(<<1, 2>>, dt))))),
          RatAdd(a.radius, b.radius))

(* C31: runge_kutta_4 reports a collision exactly when a pair overlaps at  *)
(* the current positions: it then returns the lexicographically first such *)
(* pair and leaves every body as it was; otherwise, overlaps at the        *)
(* positions of the later stages or not, it returns no collision and has   *)
(* advanced every body, the velocity by dt times the acceleration it       *)
(* caches.                                                                 *)
Rk4CollisionAtStageZeroOnly ==
    fn.op = "runge_kutta_4"
        => IF Overlapping(fn.before) # {}
           THEN /\ fn.hit
                /\ fn.collision = FirstPair(Overlapping(fn.before))
                /\ fn.after = fn.before
           ELSE /\ ~fn.hit
                /\ Len(fn.after) = Len(fn.before)
                /\ \A k \in DOMAIN fn.after :
                      /\ fn.after[k].id = fn.before[k].id
                      /\ fn.after[k].mass = fn.before[k].mass
                      /\ fn.after[k].velocity
                         = RatAdd(fn.before[k].velocity,
                                  RatMul(fn.after[k].acceleration, fn.time_step))

(* A step that returned no collision although two bodies overlap at the    *)
(* positions of stage 1, and moved them.                                   *)
Rk4PassedThrough ==
    /\ fn.op = "runge_kutta_4"
    /\ ~fn.hit
    /\ Overlapping(fn.before) = {}
    /\ OverlapHalfWay(fn.before[1], fn.before[2], fn.time_step)
    /\ fn.after[2].position # fn.before[2].position


(* distance <= r_i + r_j, the bodies touching included. *)
Collides(a, b) ==
    RatLe(RatAbs(RatSub(b.position, a.position)), RatAdd(a.radius, b.radius))

(* The pairs between the fences, inclusive. *)
Fenced(num_bodies, start, end) ==
    {p \in AllPairs(num_bodies) : PairLe(start, p) /\ PairLe(p, end)}

(* The two symmetric contributions of every pair of a set, summed. *)
RECURSIVE SumOfPairs(_, _, _)
SumOfPairs(bodies, pairs, acc) ==
    IF pairs = {}
    THEN acc
    ELSE SumOfPairs(bodies, pairs \ {FirstPair(pairs)},
                    AddPair(acc, bodies, FirstPair(pairs)))

CollidingIn(bodies, pairs) ==
    {p \in pairs : Collides(bodies[p[1] + 1], bodies[p[2] + 1])}

(* C32: symplectic_mt over the fence (start, end) visits exactly the pairs *)
(* lexicographically between start and end, inclusive: if none of them is  *)
(* at a distance <= r_i + r_j it returns the vector of length N of the sum *)
(* of the two symmetric contributions of those pairs, zero for a body in   *)
(* none of them; otherwise it returns the first such pair, a pair at       *)
(* exactly r_i + r_j included.  Over the full range it returns what        *)
(* symplectic returns.                                                     *)
SymplecticMtOverFence ==
    fn.op = "symplectic_mt"
        => LET num == Len(fn.before)
               pairs == Fenced(num, fn.start, fn.end)
               hits == CollidingIn(fn.before, pairs)
           IN  /\ IF hits = {}
                  THEN /\ fn.result.ok
                       /\ fn.result.vec = SumOfPairs(fn.before, pairs, ZeroVec(num))
                       /\ \A k \in 1..num :
                             (\A p \in pairs : k - 1 \notin {p[1], p[2]})
                                => fn.result.vec[k] = Zero
                  ELSE /\ ~fn.result.ok
                       /\ fn.result.pair = FirstPair(hits)
               /\ (fn.start = <<0, 1>> /\ fn.end = <<num - 2, num - 1>>)
                     => fn.result = fn.whole

(* A fence that leaves out a colliding pair and holds a touching one: the  *)
(* touching pair is returned.                                              *)
MtTouchingInsideFence ==
    /\ fn.op = "symplectic_mt"
    /\ Len(fn.before) = 4
    /\ fn.start = <<0, 2>>
    /\ fn.end = <<1, 3>>
    /\ Collides(fn.before[1], fn.before[2])
    /\ ~fn.result.ok
    /\ fn.result.pair = <<1, 2>>
    /\ RatAbs(RatSub(fn.before[3].position, fn.before[2].position)) = Rat(2)


(* N (N - 1) / 2, the number of pairs of N bodies. *)
PairCount(num_bodies) ==
    (num_bodies * (num_bodies - 1)) \div 2

(* C33: get_mt_splices(N, T) returns no slice when N < 2 and otherwise     *)
(* exactly min(T, N (N - 1) / 2) slices, each a fence start <= end of      *)
(* pairs of the N bodies and so not empty; for N = 2 and T > 1 it is one   *)
(* slice; worker w finds its slice in the queue when w is below the number *)
(* of slices and no work otherwise.                                        *)
SplicesCount ==
    fn.op = "get_mt_splices"
        => /\ fn.num_bodies < 2 => fn.slices = <<>>
           /\ fn.num_bodies >= 2
                 => /\ Len(fn.slices)
                       = IF fn.num_threads <= PairCount(fn.num_bodies)
                         THEN fn.num_threads
                         ELSE PairCount(fn.num_bodies)
                    /\ \A a \in DOMAIN fn.slices :
                          /\ fn.slices[a].start \in AllPairs(fn.num_bodies)
                          /\ fn.slices[a].end \in AllPairs(fn.num_bodies)
                          /\ PairLe(fn.slices[a].start, fn.slices[a].end)
           /\ (fn.num_bodies = 2 /\ fn.num_threads > 1) => Len(fn.slices) = 1
           /\ \A w \in 1..fn.num_threads :
                 IF w - 1 < Len(fn.slices)
                 THEN fn.work[w] = fn.slices[w]
                 ELSE fn.work[w] = NoWork

(* Two bodies and three threads: one slice of the one pair, and no work    *)
(* for the second and the third worker.                                    *)
SplicesOnePair ==
    /\ fn.op = "get_mt_splices"
    /\ fn.num_bodies = 2
    /\ fn.num_threads = 3
    /\ fn.slices = << [start |-> <<0, 1>>, end |-> <<0, 1>>] >>
    /\ fn.work[1] = fn.slices[1]
    /\ fn.work[2] = NoWork
    /\ fn.work[3] = NoWork


(* C34: the time_elapsed the driver reports at an epoch boundary is the    *)
(* time_elapsed it started from plus the sum, over the steps it has        *)
(* counted, of the dt in force when each was made, whatever changes of dt  *)
(* the two modes have made between them; and time_elapsed never decreases. *)
TimeElapsedIsSumOfSteps ==
    /\ []((fn.op = "time" /\ fn.reported)
            => fn.params.time_elapsed = RatAdd(fn.started, fn.sum))
    /\ [][(fn.op = "time" /\ fn'.op = "time")
            => RatLe(fn.params.time_elapsed, fn'.params.time_elapsed)]_vars

(* A report made after steps counted with two different dt. *)
TimeReportedAcrossChange ==
    /\ fn.op = "time"
    /\ fn.reported
    /\ fn.time_step_counter > 0
    /\ fn.time_running # fn.started
    /\ fn.time_step # Rat(24)
    /\ ~RatLe(fn.params.time_elapsed, fn.started)


(* The driver thread sets thread_stopped (engine.rs 315). *)
DriverStops ==
    ~thread_stopped /\ thread_stopped'

(* C35: at the moment the driver sets thread_stopped to true the snapshot  *)
(* buffer holds exactly the driver's final working list, the same bodies   *)
(* in the same order with the same state.                                  *)
SnapshotIsFinalList ==
    [][DriverStops => (objects' = objects_local /\ objects' = objects)]_vars

(* C35 for the runs in which no body is appended to the snapshot buffer    *)
(* between the last publication and the stop of the driver (C29).          *)
SnapshotIsFinalListUnlessAppended ==
    [][(DriverStops /\ objects = published)
          => (objects' = objects_local /\ objects' = objects)]_vars


(* A driver thread is live and it, or one of its workers, can take a step  *)
(* towards its next epoch boundary.                                        *)
DriverLiveAndAble ==
    /\ live_drivers = 1
    /\ dpc \notin {"none", "dead"}
    /\ \/ dpc \in {"init", "step", "kick", "gather", "publish", "epoch"}
       \/ dpc = "join" /\ HandlesJoined
       \/ \E w \in DOMAIN wpc : wpc[w] = "run"

(* C36: in every reachable state is_running implies that thread_stopped is *)
(* false and that a driver thread is live and able to go on to a further   *)
(* epoch boundary; is_running becomes true only in a start that launches a *)
(* driver, and thread_stopped becomes true only when is_running is false.  *)
RunningMeansLiveDriver ==
    /\ [](params.is_running => (~thread_stopped /\ DriverLiveAndAble))
    /\ [][(~params.is_running /\ params'.is_running)
            => (live_drivers' = live_drivers + 1 /\ dpc' = "init")]_vars
    /\ [][DriverStops => ~params.is_running]_vars

(* C36 for the runs in which no stale collision marker has aborted the     *)
(* driver thread (C22).                                                    *)
RunningMeansLiveDriverUnlessAborted ==
    /\ []((params.is_running /\ dpc # "dead")
            => (~thread_stopped /\ DriverLiveAndAble))
    /\ [][(~params.is_running /\ params'.is_running)
            => (live_drivers' = live_drivers + 1 /\ dpc' = "init")]_vars
    /\ [][DriverStops => ~params.is_running]_vars


(* The driver is in an epoch or at its end, with the configuration         *)
(* params_local in force.                                                  *)
ConfigurationInForce ==
    dpc \in {"step", "kick", "atA", "atB", "gather", "publish", "epoch"}

LiveWorkers ==
    {w \in DOMAIN wpc : wpc[w] # "done"}

(* C37: worker threads are live only in a parallel symplectic              *)
(* configuration: while a configuration is in force, no worker is live if  *)
(* it is RK4 or has num_threads = 1, and otherwise the live workers are    *)
(* exactly the num_threads workers of the current set; the step that       *)
(* spawns a set of workers is taken when every worker of the set before    *)
(* it has ended.                                                           *)
WorkersOnlyWhenParallel ==
    /\ [](ConfigurationInForce
            => IF params_local.method.tag = "Symplectic"
                  /\ params_local.num_threads > 1
               THEN /\ LiveWorkers = 1..params_local.num_threads
                    /\ Len(wpc) = params_local.num_threads
                    /\ Len(thread_results) = params_local.num_threads
               ELSE LiveWorkers = {})
    /\ [][(dpc \in {"init", "epoch", "join"} /\ dpc' = "step" /\ wpc' # wpc)
            => \A w \in DOMAIN wpc : wpc[w] = "done"]_vars

(* A set of three workers spawned at a reconfiguration, after an epoch of  *)
(* two steps.                                                              *)
WorkersSpawnedAtReconfiguration ==
    /\ dpc = "step"
    /\ i = 0
    /\ steps_total = 2
    /\ params_local.num_threads = 3
    /\ LiveWorkers = {1, 2, 3}
    /\ \A w \in DOMAIN thread_results : thread_results[w] = Ok(<<>>)


(***************************************************************************)
(* The number of steps of an epoch (engine.rs 81 and 264-278).             *)
(***************************************************************************)
(* engine.rs 81: let mut steps_until_update = 1000u128. *)
FirstSteps ==
    1000

(* engine.rs 278: steps_until_update.max(10). *)
LeastSteps ==
    10

(* Instant differences of 1 s in nanoseconds. *)
NanosPerSecond ==
    1000000000

StepsMaxEpochs ==
    3

(* Measured durations of an epoch in nanoseconds: none, 10 ms, 100 ms,     *)
(* 1 s and 2 s.                                                            *)
Durations ==
    {0, 10000000, 100000000, NanosPerSecond, 2 * NanosPerSecond}

(* Engine.framerate: 60 (engine.rs 488) or FRAMERATE = 170 (main.rs 35    *)
(* and 448).                                                               *)
Framerates ==
    {60, 170}

(* f64::round of a value that is not negative: to the nearest integer,     *)
(* halves away from zero.                                                  *)
round(x) ==
    (2 * x[1] + x[2]) \div (2 * x[2])

(* engine.rs 267-273: steps per second of the epoch that ended. *)
MeasuredSpeed(steps_until_update, duration, framerate) ==
    IF duration = 0
    THEN RatMul(RatMul(Rat(steps_until_update), Rat(2)), Rat(framerate))
    ELSE RatMul(Rat(steps_until_update),
                RatDiv(Rat(NanosPerSecond), Rat(duration)))

(* The count of engine.rs 275 without the limit of line 278. *)
NextStepsUnlimited(steps_until_update, duration, framerate) ==
    round(RatDiv(MeasuredSpeed(steps_until_update, duration, framerate),
                 Rat(framerate)))

(* engine.rs 275-278: the steps of the next epoch. *)
NextSteps(steps_until_update, duration, framerate) ==
    Max(round(RatDiv(MeasuredSpeed(steps_until_update, duration, framerate),
                     Rat(framerate))),
        LeastSteps)

InitSteps ==
    /\ \E f \in Framerates :
          fn = [op |-> "steps", framerate |-> f,
                steps_until_update |-> FirstSteps, epochs |-> 0,
                before |-> 0, duration |-> 0]
    /\ EngineIdle

(* The boundary of an epoch of steps_until_update steps that took          *)
(* duration nanoseconds.                                                   *)
StepsEpoch ==
    /\ fn.op = "steps"
    /\ fn.epochs < StepsMaxEpochs
    /\ \E duration \in Durations :
          fn' = [fn EXCEPT !.steps_until_update =
                               NextSteps(fn.steps_until_update, duration,
                                         fn.framerate),
                           !.epochs = @ + 1,
                           !.before = fn.steps_until_update,
                           !.duration = duration]
    /\ UNCHANGED modelVars

SpecSteps ==
    InitSteps /\ [][StepsEpoch]_vars

(* C38: steps_until_update is at least 10 in every epoch and 1000 in the   *)
(* first one, whatever duration is measured; after an epoch of measured    *)
(* duration zero the count is twice the count of that epoch.               *)
StepsAtLeastTen ==
    fn.op = "steps"
        => /\ fn.steps_until_update >= 10
           /\ fn.epochs = 0 => fn.steps_until_update = 1000
           /\ (fn.epochs > 0 /\ fn.duration = 0)
                 => fn.steps_until_update = 2 * fn.before

(* An epoch limited to 10 steps, followed by one of no measured duration   *)
(* and by one of 20 steps.                                                 *)
StepsDoubledFromTen ==
    /\ fn.op = "steps"
    /\ fn.before = 10
    /\ fn.duration = 0
    /\ fn.steps_until_update = 20

=============================================================================
